---------------------------- MODULE Spec2Model ----------------------------
(***************************************************************************)
(* Auction concurrency and lifecycle engine of the Discord auction bot:    *)
(* the SQLite store reached through ONE shared aiosqlite connection        *)
(* (database.py), the TTL cache (cache_manager.py), the bid entry points   *)
(* (commands.py, views.py), the per-user guard (main.py) and the closing   *)
(* path (timer_manager.py).                                                *)
(*                                                                         *)
(* Every coroutine is a task with a position (pc).  One action is the code *)
(* a coroutine runs between two suspension points: a statement sent to the *)
(* connection executes, and the synchronous code after it runs, in one     *)
(* step; where that synchronous code touches the shared in-memory maps     *)
(* (cache, guard, timer table) it is a step of its own, because other      *)
(* coroutines run between the statement's execution on the connection      *)
(* thread and the resumption of the awaiting coroutine.                    *)
(*                                                                         *)
(* Time is an integer clock; datetime.now() reads it.  Prices are integers *)
(* (REAL columns in the source; no claim settled here rests on rounding).  *)
(* Columns no modelled operation reads (title, guild_id, channel_id,       *)
(* payment_material, image_urls, is_quick_bid, last_updated) are left out. *)
(***************************************************************************)
EXTENDS Integers, Sequences, FiniteSets, TLC

\* ------------------------------------------------------------------ bounds
MaxTime == 3        \* the clock runs 0..MaxTime
MaxAmount == 3      \* bid amounts and prices are drawn from 0..MaxAmount
MaxBids == 2        \* no new bid request starts once the store holds this many bid rows
Duration == 2       \* the auction's duration, in clock units

\* --------------------------------------------------- program constants
AuctionTtl == 3     \* CacheManager.auction_ttl (30 s, in units of 10 s)
BidTtl == 1         \* CacheManager.bid_ttl (10 s, in units of 10 s)
BidCooldown == 1    \* cooldown set after an accepted bid (1.0 s, rounded up to one clock unit)
BidsFetched == 20   \* rows get_auction_bids_cached asks the store for: max(limit * 3, 20)

\* ------------------------------------------------------------- identities
None == "None"
Owner == "owner"
Users == {"owner", "x", "y"}
AuctionIds == {1}
Prices == {1}       \* precio_inicial offered to /subasta
Increments == {1}   \* incremento_minimo offered to /subasta
Bidders == {"b1", "b2"}
Closers == {"c1", "c2"}
Entries == {"slash", "quick", "modal"}

VARIABLES
    now,             \* datetime.now()
    committed,       \* the database file: what a new connection would read
    connection,      \* the shared connection's view: committed plus its open transaction
    in_transaction,  \* sqlite3.Connection.in_transaction of the shared connection
    auction_cache,   \* CacheManager.auction_cache with auction_cache_ttl
    bid_cache,       \* CacheManager.bid_cache with bid_cache_ttl
    bid_counts,      \* CacheManager.bid_counts
    user_cooldowns,  \* OptimizedAuctionBot.user_cooldowns
    bid_processing,  \* OptimizedAuctionBot.bid_processing
    active_timers,   \* TimerManager.active_timers (ids with a live timer task)
    notified,        \* auction-closed notifications spawned, per auction
    bidder,          \* the bid coroutines
    closer,          \* the closing coroutines (TimerManager.end_auction and its callers)
    creator,         \* the /subasta coroutine
    reader           \* an embed refresh (AuctionUtils.create_auction_embed)

vars == <<now, committed, connection, in_transaction, auction_cache, bid_cache, bid_counts,
          user_cooldowns, bid_processing, active_timers, notified,
          bidder, closer, creator, reader>>

store_vars == <<committed, connection, in_transaction>>
cache_vars == <<auction_cache, bid_cache, bid_counts>>
guard_vars == <<user_cooldowns, bid_processing>>

\* ------------------------------------------------------------------ rows
\* A row of table auctions; status "absent" stands for "no such row".
NoAuction ==
    [status |-> "absent", creator_id |-> None, starting_price |-> 0,
     current_price |-> 0, min_increment |-> 0, ends_at |-> 0,
     winner_id |-> None, message_id |-> None, bid_count |-> 0]

EmptyStore == [auctions |-> [a \in AuctionIds |-> NoAuction], bids |-> <<>>]

Min(a, b) == IF a < b THEN a ELSE b

\* SELECT ... FROM bids WHERE auction_id = ? ORDER BY created_at DESC:
\* newest first; equal created_at come out highest rowid first (the
\* (auction_id, created_at) index read backwards).
RECURSIVE OrderByCreatedAtDesc(_)
OrderByCreatedAtDesc(s) ==
    IF s = <<>> THEN <<>>
    ELSE LET i == CHOOSE k \in 1..Len(s) :
                    \A j \in 1..Len(s) :
                        \/ s[j].created_at < s[k].created_at
                        \/ (s[j].created_at = s[k].created_at /\ j <= k)
         IN  <<s[i]>> \o OrderByCreatedAtDesc(SubSeq(s, 1, i - 1) \o SubSeq(s, i + 1, Len(s)))

\* AuctionDatabase.get_auction_bids(auction_id, limit) read from store view st.
get_auction_bids(st, a, limit) ==
    LET rows == OrderByCreatedAtDesc(SelectSeq(st.bids, LAMBDA b : b.auction_id = a))
    IN  SubSeq(rows, 1, Min(limit, Len(rows)))

\* AuctionDatabase.get_auction(auction_id) read from store view st.
get_auction(st, a) == st.auctions[a]


\* ----------------------------------------------------------------- cache
\* The limit get_bid_count passes to db.get_auction_bids.
CountFetched == 1000

NoAuctionEntry == [present |-> FALSE, row |-> NoAuction, ttl |-> 0]
NoBidsEntry == [present |-> FALSE, bids |-> <<>>, ttl |-> 0]
NoCount == [present |-> FALSE, count |-> 0]

\* The test both cached getters make: key present and current_time < ttl.
AuctionHit(a) == auction_cache[a].present /\ now < auction_cache[a].ttl
BidsHit(a) == bid_cache[a].present /\ now < bid_cache[a].ttl

\* The test get_bid_count makes: key present (bid_counts has no ttl map).
CountHit(a) == bid_counts[a].present

\* CacheManager.cleanup_expired_cache on one cache: the keys whose ttl the
\* clock has reached are popped.
Swept(cache, none) ==
    [a \in AuctionIds |->
        IF cache[a].present /\ now >= cache[a].ttl THEN none ELSE cache[a]]

\* CacheManager.get_auction_cached, after the store answered: a found row is
\* stored with ttl = current_time + auction_ttl, current_time read before the await.
AuctionFilled(cache, a, row, t0) ==
    IF row.status = "absent" THEN cache
    ELSE [cache EXCEPT ![a] = [present |-> TRUE, row |-> row, ttl |-> t0 + AuctionTtl]]

\* CacheManager.get_auction_bids_cached, after the store answered: a
\* non-empty list is stored with ttl = current_time + bid_ttl.
BidsFilled(cache, a, bids, t0) ==
    IF bids = <<>> THEN cache
    ELSE [cache EXCEPT ![a] = [present |-> TRUE, bids |-> bids, ttl |-> t0 + BidTtl]]

\* CacheManager.invalidate_auction_cache: the snapshot and the bids list of
\* one auction are dropped together.
InvalidatedAuctionsKeeping(a) == auction_cache
InvalidatedAuctions(a) == [auction_cache EXCEPT ![a] = NoAuctionEntry]
InvalidatedBidsKeeping(a) == bid_cache
InvalidatedBids(a) == [bid_cache EXCEPT ![a] = NoBidsEntry]
InvalidatedCounts(a) == [bid_counts EXCEPT ![a] = NoCount]

\* ------------------------------------------------- the shared connection
\* connection.execute of an INSERT or UPDATE: sqlite3 opens a transaction
\* first when none is open, so the change joins whatever transaction is open.
\* connection.commit(): everything the connection changed becomes durable,
\* whoever changed it.  ROLLBACK: everything uncommitted is dropped, whoever
\* wrote it; it fails when no transaction is open, as BEGIN fails when one is.
Committing ==
    /\ committed' = connection
    /\ in_transaction' = FALSE
    /\ UNCHANGED connection

RollingBack ==
    /\ connection' = committed
    /\ in_transaction' = FALSE
    /\ UNCHANGED committed

Writing(view) ==
    /\ connection' = view
    /\ in_transaction' = TRUE
    /\ UNCHANGED committed

\* ------------------------------------------------------------- bidders
IdleBidder ==
    [pc |-> "idle", entry |-> "slash", auction_id |-> 1, user_id |-> None,
     amount |-> 0, row |-> NoAuction, previous_user_id |-> None,
     previous_amount |-> 0, t0 |-> 0, marked |-> FALSE, reply |-> "none",
     stmt |-> "none", attempt |-> 0, slept |-> 0]

\* OptimizedAuctionBot.is_user_on_cooldown
is_user_on_cooldown(u) == now < user_cooldowns[u]

\* OptimizedAuctionBot.set_user_cooldown: cooldown-until = now + seconds.
set_user_cooldownLate(u, seconds) ==
    [user_cooldowns EXCEPT ![u] = now + seconds + 1]
set_user_cooldown(u, seconds) ==
    [user_cooldowns EXCEPT ![u] = now + seconds]

\* OptimizedAuctionBot.is_bid_processing
is_bid_processing(u) == u \in bid_processing

\* OptimizedAuctionBot.set_bid_processing: the set after add / discard.
set_bid_processingAll(u, processing) ==
    IF processing THEN bid_processing \cup {u} ELSE {}
set_bid_processingKeeping(u, processing) ==
    IF processing THEN bid_processing \cup {u} ELSE bid_processing
set_bid_processingStuck(u, processing) == bid_processing \cup {u}
set_bid_processing(u, processing) ==
    IF processing THEN bid_processing \cup {u} ELSE bid_processing \ {u}

\* The pre-checks of the /pujar command against the (possibly cached)
\* snapshot; "ok" when the command goes on to place_bid_optimized.
CommandPrecheck(row, u, amount) ==
    IF row.status = "absent" THEN "not_found"
    ELSE IF row.status # "active" THEN "inactive"
    ELSE IF u = row.creator_id THEN "self_bid"
    ELSE IF now >= row.ends_at THEN "expired"
    ELSE IF amount < row.current_price + row.min_increment THEN "below_min"
    ELSE "ok"

\* place_bid_optimized's validations with the owner check (lines 231-233)
\* taken out: C3_NoOwnerBid does not survive it.
PlaceBidCheckNoSelf(row, u, amount) ==
    IF row.status = "absent" THEN "inactive"
    ELSE IF now >= row.ends_at THEN "expired"
    ELSE IF amount < row.current_price + row.min_increment THEN "below_min"
    ELSE "ok"

\* The validations of place_bid_optimized against the row read in its
\* transaction (SELECT ... WHERE id = ? AND status = 'active').
PlaceBidCheck(row, u, amount) ==
    IF row.status = "absent" THEN "inactive"
    ELSE IF u = row.creator_id THEN "self_bid"
    ELSE IF now >= row.ends_at THEN "expired"
    ELSE IF amount < row.current_price + row.min_increment THEN "below_min"
    ELSE "ok"

\* What a bid coroutine does once it holds the auction snapshot `row` of its
\* entry point (from the cache or from the store), up to its next await.
\*   /pujar (AuctionCommands.bid): the pre-checks, then place_bid_optimized;
\*   quick bid (QuickBidButton.callback): not found -> reply; otherwise the
\*   amount is current_price + min_increment of the snapshot, the in-flight
\*   marker is set and place_bid_optimized is called.
AfterLookup(b, row) ==
    LET me == bidder[b] IN
    IF me.entry = "slash"
    THEN LET verdict == CommandPrecheck(row, me.user_id, me.amount) IN
         /\ bidder' = [bidder EXCEPT ![b] =
                [me EXCEPT !.row = NoAuction, !.t0 = 0,
                           !.pc = IF verdict = "ok" THEN "begin" ELSE "reply",
                           !.reply = IF verdict = "ok" THEN "none" ELSE verdict]]
         /\ UNCHANGED bid_processing
    ELSE IF row.status = "absent"
         THEN /\ bidder' = [bidder EXCEPT ![b] =
                     [me EXCEPT !.row = NoAuction, !.t0 = 0, !.pc = "reply",
                                !.reply = "not_found"]]
              /\ UNCHANGED bid_processing
         ELSE /\ bidder' = [bidder EXCEPT ![b] =
                     [me EXCEPT !.row = NoAuction, !.t0 = 0, !.pc = "begin", !.marked = TRUE,
                                !.amount = row.current_price + row.min_increment]]
              /\ bid_processing' = set_bid_processing(me.user_id, TRUE)

\* A bid request arrives.  /pujar: cooldown check, in-flight check, then
\* `await interaction.response.defer()`.  Quick bid (already deferred):
\* cooldown check, in-flight check, get_auction_cached.  Custom-bid modal
\* (CustomBidModal.on_submit): amount > 0, then the defer; no guard check.
Bid_Start(b, e, u, a, amt) ==
    /\ bidder[b].pc = "idle"
    /\ Len(committed.bids) < MaxBids
    /\ e = "quick" => amt = 0
    /\ LET me == [IdleBidder EXCEPT !.entry = e, !.user_id = u, !.auction_id = a,
                                    !.amount = amt] IN
       IF e = "modal"
       THEN /\ bidder' = [bidder EXCEPT ![b] =
                   IF amt <= 0 THEN [me EXCEPT !.pc = "reply", !.reply = "invalid"]
                   ELSE [me EXCEPT !.pc = "deferred"]]
            /\ UNCHANGED <<bid_processing, auction_cache>>
       ELSE IF is_user_on_cooldown(u)
       THEN /\ bidder' = [bidder EXCEPT ![b] = [me EXCEPT !.pc = "reply", !.reply = "cooldown"]]
            /\ UNCHANGED <<bid_processing, auction_cache>>
       ELSE IF is_bid_processing(u)
       THEN /\ bidder' = [bidder EXCEPT ![b] = [me EXCEPT !.pc = "reply", !.reply = "processing"]]
            /\ UNCHANGED <<bid_processing, auction_cache>>
       ELSE IF e = "slash"
       THEN /\ bidder' = [bidder EXCEPT ![b] = [me EXCEPT !.pc = "deferred"]]
            /\ UNCHANGED <<bid_processing, auction_cache>>
       ELSE IF AuctionHit(a)
       THEN /\ bidder' = [bidder EXCEPT ![b] =
                   [me EXCEPT !.pc = "begin", !.marked = TRUE,
                              !.amount = auction_cache[a].row.current_price
                                         + auction_cache[a].row.min_increment]]
            /\ bid_processing' = set_bid_processing(u, TRUE)
            /\ UNCHANGED auction_cache
       ELSE /\ bidder' = [bidder EXCEPT ![b] =
                   [me EXCEPT !.row = get_auction(connection, a), !.t0 = now,
                              !.pc = "lookup_fill"]]
            /\ UNCHANGED <<bid_processing, auction_cache>>
    /\ UNCHANGED <<now, store_vars, bid_cache, bid_counts, user_cooldowns, active_timers, notified,
                   closer, creator, reader>>

\* After the defer.  /pujar: set_bid_processing(user, True), then
\* get_auction_cached (a hit goes straight on to the pre-checks, a miss reads
\* the store).  Modal: set_bid_processing(user, True), then place_bid_optimized.
Bid_Deferred(b) ==
    LET me == bidder[b] IN
    /\ me.pc = "deferred"
    /\ IF me.entry = "modal"
       THEN /\ bidder' = [bidder EXCEPT ![b] = [me EXCEPT !.pc = "begin", !.marked = TRUE]]
       ELSE IF AuctionHit(me.auction_id)
       THEN LET row == auction_cache[me.auction_id].row
                verdict == CommandPrecheck(row, me.user_id, me.amount) IN
            bidder' = [bidder EXCEPT ![b] =
                [me EXCEPT !.marked = TRUE,
                           !.pc = IF verdict = "ok" THEN "begin" ELSE "reply",
                           !.reply = IF verdict = "ok" THEN "none" ELSE verdict]]
       ELSE bidder' = [bidder EXCEPT ![b] =
                [me EXCEPT !.row = get_auction(connection, me.auction_id), !.t0 = now,
                           !.marked = TRUE, !.pc = "lookup_fill"]]
    /\ bid_processing' = set_bid_processing(me.user_id, TRUE)
    /\ UNCHANGED <<now, store_vars, cache_vars, user_cooldowns, active_timers, notified,
                   closer, creator, reader>>

\* get_auction_cached resumes with the store's answer: it fills the cache and
\* the entry point goes on (AfterLookup).
Bid_LookupFill(b) ==
    LET me == bidder[b] IN
    /\ me.pc = "lookup_fill"
    /\ auction_cache' = AuctionFilled(auction_cache, me.auction_id, me.row, me.t0)
    /\ AfterLookup(b, me.row)
    /\ UNCHANGED <<now, store_vars, bid_cache, bid_counts, user_cooldowns, active_timers, notified,
                   closer, creator, reader>>

\* --------------------------------- AuctionDatabase.place_bid_optimized
\* "BEGIN IMMEDIATE" on the shared connection.  With a transaction already
\* open (another coroutine's) SQLite refuses it; _safe_execute re-raises (the
\* message is not "database is locked") and the except block takes over.
PlaceBid_Begin(b) ==
    /\ bidder[b].pc = "begin"
    /\ IF in_transaction
       THEN /\ bidder' = [bidder EXCEPT ![b].pc = "except"]
            /\ UNCHANGED store_vars
       ELSE /\ bidder' = [bidder EXCEPT ![b].pc = "select"]
            /\ in_transaction' = TRUE
            /\ UNCHANGED <<committed, connection>>
    /\ UNCHANGED <<now, cache_vars, guard_vars, active_timers, notified, closer, creator, reader>>

\* SELECT ... FROM auctions WHERE id = ? AND status = 'active'
SelectActive(st, a) ==
    IF st.auctions[a].status = "active" THEN st.auctions[a] ELSE NoAuction

PlaceBid_Select(b) ==
    /\ bidder[b].pc = "select"
    /\ bidder' = [bidder EXCEPT ![b].row = SelectActive(connection, bidder[b].auction_id),
                                ![b].pc = "validate"]
    /\ UNCHANGED <<now, store_vars, cache_vars, guard_vars, active_timers, notified,
                   closer, creator, reader>>

\* After fetchone: the four validations, in order, against the row just read
\* and datetime.now().  A failure goes to its ROLLBACK, a pass to the SELECT
\* of the previous bid.
PlaceBid_Validate(b) ==
    LET me == bidder[b]
        verdict == PlaceBidCheck(me.row, me.user_id, me.amount) IN
    /\ me.pc = "validate"
    /\ bidder' = [bidder EXCEPT ![b] =
           IF verdict = "ok" THEN [me EXCEPT !.pc = "select_prev"]
           ELSE [me EXCEPT !.pc = "rollback", !.reply = verdict, !.row = NoAuction]]
    /\ UNCHANGED <<now, store_vars, cache_vars, guard_vars, active_timers, notified,
                   closer, creator, reader>>

\* The ROLLBACK of a rejection.  It fails ("no transaction is active") when
\* another coroutine's commit or ROLLBACK closed the transaction meanwhile,
\* and the except block takes over.
PlaceBid_Rollback(b) ==
    /\ bidder[b].pc = "rollback"
    /\ IF in_transaction
       THEN /\ RollingBack
            /\ bidder' = [bidder EXCEPT ![b].pc = "reply"]
       ELSE /\ UNCHANGED store_vars
            /\ bidder' = [bidder EXCEPT ![b].pc = "except"]
    /\ UNCHANGED <<now, cache_vars, guard_vars, active_timers, notified, closer, creator, reader>>

\* except Exception: try ROLLBACK (whatever transaction is open then is
\* dropped; a failure is swallowed); return "Error interno del servidor".
PlaceBid_Except(b) ==
    /\ bidder[b].pc = "except"
    /\ IF in_transaction THEN RollingBack ELSE UNCHANGED store_vars
    /\ bidder' = [bidder EXCEPT ![b].pc = "reply", ![b].reply = "internal"]
    /\ UNCHANGED <<now, cache_vars, guard_vars, active_timers, notified, closer, creator, reader>>

\* --------------------------------- _safe_execute / _safe_commit retries
\* max_retries of _safe_execute and _safe_commit.
max_retries == 3

\* `attempt < max_retries - 1`: a "database is locked" failure of this
\* attempt (0, 1, 2) is followed by another attempt.
RetriesLockedAlways(attempt) == attempt >= 0
RetriesLocked(attempt) == attempt < max_retries - 1

\* asyncio.sleep(0.1 * (attempt + 1)), in tenths of a second.
Backoff(attempt) == attempt + 1

\* One attempt of the statement (or commit) a bid coroutine is at fails with
\* "database is locked": the store is left as it was.  The record keeps which
\* statement is in its retry loop (stmt), how many attempts of it have failed
\* (attempt) and the last sleep (slept); a new statement starts at attempt 0.
\* Before the last attempt the loop sleeps and goes round; the last attempt
\* re-raises: inside the try of place_bid_optimized the except block takes
\* over, inside the except block (its ROLLBACK) the failure is swallowed and
\* the internal error is returned.
PlaceBid_Locked(b) ==
    LET me == bidder[b]
        attempt == IF me.stmt = me.pc THEN me.attempt ELSE 0 IN
    /\ me.pc \in {"begin", "select", "rollback", "except", "select_prev",
                  "insert", "update", "commit"}
    /\ bidder' = [bidder EXCEPT ![b] =
           IF RetriesLocked(attempt)
           THEN [me EXCEPT !.stmt = me.pc, !.attempt = attempt + 1,
                           !.slept = Backoff(attempt)]
           ELSE IF me.pc = "except"
           THEN [me EXCEPT !.pc = "reply", !.reply = "internal",
                           !.stmt = "none", !.attempt = 0, !.slept = 0]
           ELSE [me EXCEPT !.pc = "except", !.stmt = "none", !.attempt = 0, !.slept = 0]]
    /\ UNCHANGED <<now, store_vars, cache_vars, guard_vars, active_timers, notified,
                   closer, creator, reader>>

\* One attempt of the SELECT of get_auction, awaited by get_auction_cached on
\* a cache miss, fails with "database is locked".  The last failure is caught
\* by get_auction, which returns None: nothing is cached and the entry point
\* goes on as for an auction that does not exist.
Lookup_Locked(b) ==
    LET me == bidder[b]
        attempt == IF me.stmt = me.pc THEN me.attempt ELSE 0 IN
    /\ me.pc = "lookup_fill"
    /\ IF RetriesLocked(attempt)
       THEN /\ bidder' = [bidder EXCEPT ![b] =
                   [me EXCEPT !.stmt = me.pc, !.attempt = attempt + 1,
                              !.slept = Backoff(attempt)]]
            /\ UNCHANGED bid_processing
       ELSE /\ me.stmt = me.pc
            /\ bidder' = [bidder EXCEPT ![b] =
                   [me EXCEPT !.row = NoAuction, !.t0 = 0, !.pc = "reply",
                              !.reply = "not_found",
                              !.stmt = "none", !.attempt = 0, !.slept = 0]]
            /\ UNCHANGED bid_processing
    /\ UNCHANGED <<now, store_vars, cache_vars, user_cooldowns, active_timers, notified,
                   closer, creator, reader>>

\* SELECT user_id, amount FROM bids WHERE auction_id = ? ORDER BY created_at DESC LIMIT 1
\* and, with its answer, the arguments of the INSERT: datetime.now() is read
\* here (t0) for created_at.
PlaceBid_SelectPrev(b) ==
    LET me == bidder[b]
        prev == get_auction_bids(connection, me.auction_id, 1) IN
    /\ me.pc = "select_prev"
    /\ bidder' = [bidder EXCEPT ![b] =
           [me EXCEPT !.pc = "insert", !.row = NoAuction, !.t0 = now,
                      !.previous_user_id = IF prev = <<>> THEN None ELSE prev[1].user_id,
                      !.previous_amount = IF prev = <<>> THEN me.row.current_price
                                          ELSE prev[1].amount]]
    /\ UNCHANGED <<now, store_vars, cache_vars, guard_vars, active_timers, notified,
                   closer, creator, reader>>

\* INSERT INTO bids (...) VALUES (auction_id, user_id, amount, created_at, ...)
InsertBid(st, a, u, amount, at) ==
    [st EXCEPT !.bids = Append(st.bids,
        [auction_id |-> a, user_id |-> u, amount |-> amount, created_at |-> at])]

PlaceBid_Insert(b) ==
    LET me == bidder[b] IN
    /\ me.pc = "insert"
    /\ Writing(InsertBid(connection, me.auction_id, me.user_id, me.amount, me.t0))
    /\ bidder' = [bidder EXCEPT ![b].pc = "update", ![b].t0 = 0]
    /\ UNCHANGED <<now, cache_vars, guard_vars, active_timers, notified, closer, creator, reader>>

\* UPDATE auctions SET current_price = ?, bid_count = bid_count + 1 WHERE id = ?
UpdatePrice(st, a, amount) ==
    IF st.auctions[a].status = "absent" THEN st
    ELSE [st EXCEPT !.auctions[a].current_price = amount,
                    !.auctions[a].bid_count = st.auctions[a].bid_count + 1]

PlaceBid_Update(b) ==
    LET me == bidder[b] IN
    /\ me.pc = "update"
    /\ Writing(UpdatePrice(connection, me.auction_id, me.amount))
    /\ bidder' = [bidder EXCEPT ![b].pc = "commit"]
    /\ UNCHANGED <<now, cache_vars, guard_vars, active_timers, notified, closer, creator, reader>>

\* _safe_commit: connection.commit()
PlaceBid_Commit(b) ==
    /\ bidder[b].pc = "commit"
    /\ Committing
    /\ bidder' = [bidder EXCEPT ![b].pc = "post"]
    /\ UNCHANGED <<now, cache_vars, guard_vars, active_timers, notified, closer, creator, reader>>

\* ------------------------------------------- after an accepted bid
\* /pujar: set_user_cooldown, invalidate_auction_cache, then the two
\* create_task calls.  `import asyncio` sits inside the `if` that notifies the
\* previous bidder and commands.py imports asyncio nowhere else, so the second
\* create_task raises UnboundLocalError when that `if` is not taken: the
\* finally releases the marker and the except block sends the generic error.
\* Quick bid and modal: invalidate_auction_cache, set_user_cooldown(1.0),
\* then get_auction_cached for the confirmation (a miss: it reads the store).
Bid_Post(b) ==
    LET me == bidder[b]
        a == me.auction_id
        notifies == me.previous_user_id # None /\ me.previous_user_id # me.user_id IN
    /\ me.pc = "post"
    /\ user_cooldowns' = set_user_cooldown(me.user_id, BidCooldown)
    /\ auction_cache' = InvalidatedAuctions(a)
    /\ bid_cache' = InvalidatedBids(a)
    /\ bid_counts' = InvalidatedCounts(a)
    /\ IF me.entry = "slash"
       THEN IF notifies
            THEN /\ bidder' = [bidder EXCEPT ![b] =
                        [me EXCEPT !.pc = "reply", !.reply = "accepted",
                                   !.previous_user_id = None, !.previous_amount = 0]]
                 /\ UNCHANGED bid_processing
            ELSE /\ bidder' = [bidder EXCEPT ![b] =
                        [me EXCEPT !.pc = "reply", !.reply = "error", !.marked = FALSE,
                                   !.previous_user_id = None, !.previous_amount = 0]]
                 /\ bid_processing' = set_bid_processing(me.user_id, FALSE)
       ELSE /\ bidder' = [bidder EXCEPT ![b] =
                   [me EXCEPT !.pc = "confirm_fill", !.row = get_auction(connection, a),
                              !.t0 = now, !.previous_user_id = None, !.previous_amount = 0]]
            /\ UNCHANGED bid_processing
    /\ UNCHANGED <<now, store_vars, active_timers, notified, closer, creator, reader>>

\* Quick bid and modal: get_auction_cached resumes and fills the cache; the
\* confirmation is about to be sent.
Bid_ConfirmFill(b) ==
    LET me == bidder[b] IN
    /\ me.pc = "confirm_fill"
    /\ auction_cache' = AuctionFilled(auction_cache, me.auction_id, me.row, me.t0)
    /\ bidder' = [bidder EXCEPT ![b] =
           [me EXCEPT !.pc = "reply", !.reply = "accepted", !.row = NoAuction, !.t0 = 0]]
    /\ UNCHANGED <<now, store_vars, bid_cache, bid_counts, guard_vars, active_timers, notified,
                   closer, creator, reader>>

\* The reply is sent and the coroutine ends; inside the try/finally of the
\* entry point the in-flight marker is released.
Bid_Reply(b) ==
    LET me == bidder[b] IN
    /\ me.pc = "reply"
    /\ bid_processing' = IF me.marked THEN set_bid_processing(me.user_id, FALSE)
                                    ELSE bid_processing
    /\ bidder' = [bidder EXCEPT ![b] = [IdleBidder EXCEPT !.pc = "done"]]
    /\ UNCHANGED <<now, store_vars, cache_vars, user_cooldowns, active_timers, notified,
                   closer, creator, reader>>

\* The confirmation of an accepted bid cannot be sent: followup.send raises.
\* The finally of the entry point releases the in-flight marker; /pujar's
\* except block tries the generic error message, the quick bid and the modal
\* send nothing (the interaction is already deferred).  The store is not
\* touched.
Bid_ReplyFail(b) ==
    LET me == bidder[b] IN
    /\ me.pc = "reply"
    /\ me.reply = "accepted"
    /\ bid_processing' = IF me.marked THEN set_bid_processing(me.user_id, FALSE)
                                    ELSE bid_processing
    /\ bidder' = [bidder EXCEPT ![b] =
           [me EXCEPT !.pc = "done", !.reply = "error", !.marked = FALSE]]
    /\ UNCHANGED <<now, store_vars, cache_vars, user_cooldowns, active_timers, notified,
                   closer, creator, reader>>

\* The slot takes the next request.
Bid_Recycle(b) ==
    /\ bidder[b].pc = "done"
    /\ bidder' = [bidder EXCEPT ![b] = IdleBidder]
    /\ UNCHANGED <<now, store_vars, cache_vars, guard_vars, active_timers, notified,
                   closer, creator, reader>>

\* -------------------------------------------------------------- closers
IdleCloser ==
    [pc |-> "idle", origin |-> "timer", auction_id |-> 1, row |-> NoAuction,
     bids |-> <<>>, winner_id |-> None, t0 |-> 0, reply |-> "none", task |-> 0]

\* ------------------------------------------------------- timer tasks
\* active_timers holds one record per timer task that has not finished:
\* `registered` says the task is the value stored under its auction id in
\* TimerManager.active_timers, `cancelled` that task.cancel() was called on
\* it.  Task numbers are reused once a task has finished.
MaxTasks == 2       \* timer tasks alive at the same time

LiveTasks == {tm.task : tm \in active_timers}
FreeTask == CHOOSE t \in 1..MaxTasks : t \notin LiveTasks
CanArm == LiveTasks # 1..MaxTasks

\* A timer that wakes one time unit early: C16_TimerWaitsForEnd does not
\* survive it.
TimerDelayShort(end_time, t) == end_time - t - 1

\* schedule_auction_end: time_until_end = end_time - now (a remainder under
\* one second is rounded up to one second).
TimerDelay(end_time, t) == end_time - t

\* TimerManager._cancel_timer: the task stored under the id is cancelled and
\* its entry deleted.
TimersWithout(a) ==
    {IF tm.id = a /\ tm.registered
     THEN [tm EXCEPT !.registered = FALSE, !.cancelled = TRUE]
     ELSE tm : tm \in active_timers}

\* A schedule_auction_end that arms without cancelling the task already
\* stored under the id: C13_RecoverySweep does not survive it.
TimersArmedKeeping(a, end_time) ==
    active_timers \cup
        {[id |-> a, fires_at |-> now + TimerDelay(end_time, now), task |-> FreeTask,
          registered |-> TRUE, cancelled |-> FALSE]}

\* schedule_auction_end with time left: _cancel_timer, then a new task
\* _auction_timer(auction_id, delay) is stored under the id.
TimersArmed(a, end_time) ==
    TimersWithout(a) \cup
        {[id |-> a, fires_at |-> now + TimerDelay(end_time, now), task |-> FreeTask,
          registered |-> TRUE, cancelled |-> FALSE]}

\* The finally of _auction_timer in task t: the task is over and
\* active_timers.pop(auction_id, None) removes whatever is stored under
\* the id.
TimersPopped(a, t) ==
    {IF tm.id = a THEN [tm EXCEPT !.registered = FALSE] ELSE tm :
        tm \in {x \in active_timers : x.task # t}}

\* The timer task t is inside end_auction.
Firing(t) == \E c \in Closers : closer[c].task = t /\ closer[c].pc \notin {"idle", "done"}

\* task.cancel() was called on the task that runs close coroutine me: a
\* timer task, or the periodic sweep, which TimerManager.cleanup cancels
\* first.  Its next resumption raises CancelledError.
Cancelled(me) ==
    \/ \E tm \in active_timers : tm.task = me.task /\ tm.cancelled
    \/ me.origin = "sweep" /\ \E d \in Closers : closer[d].origin = "cleanup"

\* A cancelled timer task that was asleep gets its CancelledError: except,
\* then finally.
Timer_Cancelled ==
    /\ \E tm \in active_timers :
           /\ tm.cancelled
           /\ ~Firing(tm.task)
           /\ active_timers' = TimersPopped(tm.id, tm.task)
    /\ UNCHANGED <<now, store_vars, cache_vars, guard_vars, notified,
                   bidder, closer, creator, reader>>

MaxNotified == 2    \* the notification counter saturates here

ActiveLimit == 50   \* get_active_auctions: LIMIT 50

\* Positions an auction can have among the active auctions of its guild.
Ranks == {1, ActiveLimit + 1}

\* An end_auction UPDATE that also pushes ends_at back: C7_StatusAndEndTime
\* does not survive it.
EndAuctionExtending(st, a, winner) ==
    IF st.auctions[a].status = "absent" THEN st
    ELSE [st EXCEPT !.auctions[a].status = "ended", !.auctions[a].winner_id = winner,
                    !.auctions[a].ends_at = st.auctions[a].ends_at + 1]

\* UPDATE auctions SET status = 'ended', winner_id = ? WHERE id = ?
EndAuction(st, a, winner) ==
    IF st.auctions[a].status = "absent" THEN st
    ELSE [st EXCEPT !.auctions[a].status = "ended", !.auctions[a].winner_id = winner]

\* TimerManager.end_auction once it holds a snapshot `row` of an existing
\* auction: not active -> return True at once; otherwise
\* get_auction_bids_cached(auction_id, 1): a hit gives the winner and
\* db.end_auction is called, a miss reads the store.
CloseDecide(c, me, row) ==
    LET a == me.auction_id IN
    IF row.status # "active"
    THEN closer' = [closer EXCEPT ![c] = [me EXCEPT !.row = NoAuction, !.t0 = 0, !.pc = "return",
                                               !.reply = "noop"]]
    ELSE IF BidsHit(a)
    THEN closer' = [closer EXCEPT ![c] =
             [me EXCEPT !.row = NoAuction, !.t0 = 0, !.pc = "end_update",
                        !.winner_id = bid_cache[a].bids[1].user_id]]
    ELSE closer' = [closer EXCEPT ![c] =
             [me EXCEPT !.row = NoAuction, !.pc = "bids_fill", !.t0 = now,
                        !.bids = get_auction_bids(connection, a, BidsFetched)]]

\* TimerManager.end_auction from its first line: get_auction_cached.
CloseLookup(c, me) ==
    LET a == me.auction_id IN
    IF AuctionHit(a)
    THEN CloseDecide(c, me, auction_cache[a].row)
    ELSE closer' = [closer EXCEPT ![c] =
             [me EXCEPT !.row = get_auction(connection, a), !.t0 = now, !.pc = "auction_fill"]]

\* SELECT * FROM auctions WHERE status = 'active' AND ends_at <= ?
\* (get_expired_auctions, ? = now), seen for auction a.
SelectExpired(st, a) ==
    IF st.auctions[a].status = "active" /\ st.auctions[a].ends_at <= now
    THEN st.auctions[a] ELSE NoAuction

\* SELECT * FROM auctions WHERE guild_id = ? AND status = 'active'
\* ORDER BY ends_at ASC LIMIT 50, seen for auction a, which is the rank-th
\* active auction of its guild in that order.
get_active_auctions(st, a, rank) ==
    IF st.auctions[a].status = "active" /\ rank <= ActiveLimit
    THEN st.auctions[a] ELSE NoAuction

\* A close begins.  "timer": a timer task of the auction wakes when its
\* delay is over and calls end_auction.  "scheduled": schedule_auction_end
\* found the end time already passed and spawned end_auction.  "finalize":
\* the /finalizar command reads the auction from the store first.  "sweep":
\* _cleanup_expired_auctions wakes and get_expired_auctions returns the
\* auction.
Close_Start(c, origin, a) ==
    /\ closer[c].pc = "idle"
    /\ origin # "timer" =>
           \A d \in Closers : closer[d].pc \notin {"idle", "done"} => closer[d].origin # origin
    /\ LET me == [IdleCloser EXCEPT !.origin = origin, !.auction_id = a] IN
       CASE origin = "timer" ->
              /\ \E tm \in active_timers :
                     /\ tm.id = a /\ now >= tm.fires_at
                     /\ ~tm.cancelled /\ ~Firing(tm.task)
                     /\ CloseLookup(c, [me EXCEPT !.task = tm.task])
              /\ UNCHANGED creator
         [] origin = "scheduled" ->
              /\ creator.pc = "spawn" /\ creator.auction_id = a
              /\ creator' = [creator EXCEPT !.pc = "finished"]
              /\ CloseLookup(c, me)
         [] origin = "finalize" ->
              /\ closer' = [closer EXCEPT ![c] =
                     [me EXCEPT !.row = get_auction(connection, a), !.pc = "finalize_check"]]
              /\ UNCHANGED creator
         [] origin = "sweep" ->
              /\ \A d \in Closers : closer[d].origin # "cleanup"
              /\ SelectExpired(connection, a).status = "active"
              /\ closer' = [closer EXCEPT ![c] =
                     [me EXCEPT !.row = SelectExpired(connection, a), !.pc = "sweep_check"]]
              /\ UNCHANGED creator
    /\ UNCHANGED <<now, store_vars, cache_vars, guard_vars, active_timers, notified,
                   bidder, reader>>

\* _cleanup_expired_auctions resumes with the expired rows and calls
\* end_auction for the auction.
Close_SweepCheck(c) ==
    LET me == closer[c] IN
    /\ me.pc = "sweep_check"
    /\ ~Cancelled(me)
    /\ CloseLookup(c, me)
    /\ UNCHANGED <<now, store_vars, cache_vars, guard_vars, active_timers, notified,
                   bidder, creator, reader>>

\* AuctionCommands.finalize_auction after db.get_auction: not found and
\* "ya está finalizada" end the command with an error reply; an active
\* auction goes to TimerManager.end_auction.
Close_FinalizeCheck(c) ==
    LET me == closer[c] IN
    /\ me.pc = "finalize_check"
    /\ IF me.row.status = "absent"
       THEN closer' = [closer EXCEPT ![c] = [me EXCEPT !.row = NoAuction, !.pc = "return",
                                                    !.reply = "not_found"]]
       ELSE IF me.row.status # "active"
       THEN closer' = [closer EXCEPT ![c] = [me EXCEPT !.row = NoAuction, !.pc = "return",
                                                    !.reply = "already_ended"]]
       ELSE CloseLookup(c, me)
    /\ UNCHANGED <<now, store_vars, cache_vars, guard_vars, active_timers, notified,
                   bidder, creator, reader>>

\* get_auction_cached resumes: cache fill; nothing found -> db.get_auction.
Close_AuctionFill(c) ==
    LET me == closer[c] IN
    /\ me.pc = "auction_fill"
    /\ ~Cancelled(me)
    /\ auction_cache' = AuctionFilled(auction_cache, me.auction_id, me.row, me.t0)
    /\ IF me.row.status = "absent"
       THEN closer' = [closer EXCEPT ![c] =
                [me EXCEPT !.row = get_auction(connection, me.auction_id), !.pc = "auction_retry"]]
       ELSE CloseDecide(c, me, me.row)
    /\ UNCHANGED <<now, store_vars, bid_cache, bid_counts, guard_vars, active_timers, notified,
                   bidder, creator, reader>>

\* The direct db.get_auction after a cache miss that found nothing.
Close_AuctionRetry(c) ==
    LET me == closer[c] IN
    /\ me.pc = "auction_retry"
    /\ ~Cancelled(me)
    /\ IF me.row.status = "absent"
       THEN closer' = [closer EXCEPT ![c] = [me EXCEPT !.t0 = 0, !.pc = "return", !.reply = "failed"]]
       ELSE CloseDecide(c, me, me.row)
    /\ UNCHANGED <<now, store_vars, cache_vars, guard_vars, active_timers, notified,
                   bidder, creator, reader>>

\* get_auction_bids_cached resumes: cache fill; winner = bids[0].user_id or None.
Close_BidsFill(c) ==
    LET me == closer[c] IN
    /\ me.pc = "bids_fill"
    /\ ~Cancelled(me)
    /\ bid_cache' = BidsFilled(bid_cache, me.auction_id, me.bids, me.t0)
    /\ closer' = [closer EXCEPT ![c] =
           [me EXCEPT !.pc = "end_update", !.bids = <<>>, !.t0 = 0,
                      !.winner_id = IF me.bids = <<>> THEN None ELSE me.bids[1].user_id]]
    /\ UNCHANGED <<now, store_vars, auction_cache, bid_counts, guard_vars, active_timers, notified,
                   bidder, creator, reader>>

\* AuctionDatabase.end_auction: the UPDATE, then the commit.
Close_EndUpdate(c) ==
    LET me == closer[c] IN
    /\ me.pc = "end_update"
    /\ ~Cancelled(me)
    /\ Writing(EndAuction(connection, me.auction_id, me.winner_id))
    /\ closer' = [closer EXCEPT ![c].pc = "end_commit"]
    /\ UNCHANGED <<now, cache_vars, guard_vars, active_timers, notified, bidder, creator, reader>>

\* AuctionDatabase.end_auction when its statement raises: the exception is
\* logged, False is returned, and TimerManager.end_auction returns False
\* with nothing written.
Close_EndFail(c) ==
    LET me == closer[c] IN
    /\ me.pc = "end_update"
    /\ ~Cancelled(me)
    /\ closer' = [closer EXCEPT ![c] = [me EXCEPT !.winner_id = None, !.pc = "return",
                                                !.reply = "failed"]]
    /\ UNCHANGED <<now, store_vars, cache_vars, guard_vars, active_timers, notified,
                   bidder, creator, reader>>

Close_EndCommit(c) ==
    /\ closer[c].pc = "end_commit"
    /\ ~Cancelled(closer[c])
    /\ Committing
    /\ closer' = [closer EXCEPT ![c].pc = "end_post"]
    /\ UNCHANGED <<now, cache_vars, guard_vars, active_timers, notified, bidder, creator, reader>>

\* end_auction after db.end_auction returned True: invalidate_auction_cache,
\* create_task(_notify_auction_end_async), _cancel_timer, return True.
Close_EndPost(c) ==
    LET me == closer[c]
        a == me.auction_id IN
    /\ me.pc = "end_post"
    /\ ~Cancelled(me)
    /\ auction_cache' = InvalidatedAuctions(a)
    /\ bid_cache' = InvalidatedBids(a)
    /\ bid_counts' = InvalidatedCounts(a)
    /\ notified' = [notified EXCEPT ![a] = Min(notified[a] + 1, MaxNotified)]
    /\ active_timers' = TimersWithout(a)
    /\ closer' = [closer EXCEPT ![c] = [me EXCEPT !.winner_id = None, !.pc = "return",
                                                !.reply = "success"]]
    /\ UNCHANGED <<now, store_vars, guard_vars, bidder, creator, reader>>

\* recover_active_auctions, second part: for guild in self.bot.guilds,
\* get_active_auctions(guild.id) is read.  rank is the auction's position
\* among the active auctions of its guild.
RecoverActive(c, me, rank) ==
    closer' = [closer EXCEPT ![c] =
        [IdleCloser EXCEPT !.origin = "rearm", !.auction_id = me.auction_id,
                           !.pc = "recover_active",
                           !.row = get_active_auctions(connection, me.auction_id, rank)]]

\* end_auction has returned: the timer task's finally pops its table entry;
\* /finalizar sends its reply; the recovery sweep goes on to its second part
\* or, in its second part, is over.
Close_Return(c) ==
    LET me == closer[c] IN
    /\ me.pc = "return"
    /\ active_timers' = IF me.origin = "timer" THEN TimersPopped(me.auction_id, me.task)
                        ELSE active_timers
    /\ CASE me.origin = "recovery" -> \E rank \in Ranks : RecoverActive(c, me, rank)
         [] me.origin = "rearm" ->
              closer' = [closer EXCEPT ![c] = [IdleCloser EXCEPT !.pc = "done", !.origin = "rearm"]]
         [] OTHER -> closer' = [closer EXCEPT ![c] = [IdleCloser EXCEPT !.pc = "done"]]
    /\ UNCHANGED <<now, store_vars, cache_vars, guard_vars, notified, bidder, creator, reader>>

\* A timer task cancelled while it is suspended inside end_auction gets its
\* CancelledError there: the statement it had queued on the connection
\* still runs, nothing after it does, and the finally of _auction_timer pops
\* the table entry.  The cancelled periodic sweep leaves its loop the same
\* way, with no table entry to pop.
Close_Cancelled(c) ==
    LET me == closer[c] IN
    /\ me.pc \in {"sweep_check", "auction_fill", "auction_retry", "bids_fill", "end_update",
                  "end_commit", "end_post"}
    /\ Cancelled(me)
    /\ CASE me.pc = "end_update" -> Writing(EndAuction(connection, me.auction_id, me.winner_id))
         [] me.pc = "end_commit" -> Committing
         [] OTHER -> UNCHANGED store_vars
    /\ active_timers' = IF me.origin = "sweep" THEN active_timers
                        ELSE TimersPopped(me.auction_id, me.task)
    /\ closer' = [closer EXCEPT ![c] = [IdleCloser EXCEPT !.pc = "done"]]
    /\ UNCHANGED <<now, cache_vars, guard_vars, notified, bidder, creator, reader>>

\* ------------------------------------------------ long timers (chunks)
Chunk == 30         \* _auction_timer sleeps at most 300 s at a time (units of 10 s)

\* A delay of two chunks and one unit: the timer passes two chunk boundaries.
LongDuration == 2 * Chunk + 1

\* A timer task whose delay is longer than a chunk carries the local
\* variable `delay` of _auction_timer: what was left when its current sleep
\* began, at time fires_at - delay.
\* The sleep of a chunk is over: delay -= 300, then
\* _is_auction_still_active calls get_auction_cached.  A cache hit answers
\* at once: an active snapshot keeps the task waiting, any other ends it
\* through the finally.  A miss reads the store; `failed` says the read
\* raised, which get_auction logs before it returns None.
Timer_ChunkCheck(c, failed) ==
    /\ closer[c].pc = "idle"
    /\ \E tm \in active_timers :
           LET a == tm.id
               slept == [tm EXCEPT !.delay = tm.delay - Chunk,
                                   !.fires_at = now + tm.delay - Chunk] IN
           /\ tm.delay > Chunk /\ ~tm.cancelled /\ ~Firing(tm.task)
           /\ now >= tm.fires_at - tm.delay + Chunk
           /\ IF AuctionHit(a)
              THEN /\ ~failed
                   /\ active_timers' = IF auction_cache[a].row.status = "active"
                                       THEN (active_timers \ {tm}) \cup {slept}
                                       ELSE TimersPopped(a, tm.task)
                   /\ UNCHANGED closer
              ELSE /\ active_timers' = (active_timers \ {tm}) \cup {slept}
                   /\ closer' = [closer EXCEPT ![c] =
                          [IdleCloser EXCEPT !.origin = "chunk", !.auction_id = a,
                                             !.task = tm.task, !.pc = "chunk_fill", !.t0 = now,
                                             !.row = IF failed THEN NoAuction
                                                     ELSE get_auction(connection, a),
                                             !.reply = IF failed THEN "failed" ELSE "none"]]
    /\ UNCHANGED <<now, store_vars, cache_vars, guard_vars, notified, bidder, creator, reader>>

\* get_auction_cached resumes inside _is_auction_still_active: a row is
\* cached; `auction and auction.get('status') == 'active'` keeps the task
\* waiting (the next sleep starts now), anything else, None included, ends
\* it through the finally.  A CancelledError delivered at this await is
\* caught by the bare except of line 88, which answers True: the task goes
\* on, no longer cancelled.
Timer_ChunkFill(c) ==
    LET me == closer[c]
        a == me.auction_id IN
    /\ me.pc = "chunk_fill"
    /\ IF Cancelled(me)
       THEN /\ active_timers' = {IF tm.task = me.task
                                 THEN [tm EXCEPT !.cancelled = FALSE, !.fires_at = now + tm.delay]
                                 ELSE tm : tm \in active_timers}
            /\ UNCHANGED auction_cache
       ELSE /\ auction_cache' = AuctionFilled(auction_cache, a, me.row, me.t0)
            /\ active_timers' = IF me.row.status = "active"
                                THEN {IF tm.task = me.task
                                      THEN [tm EXCEPT !.fires_at = now + tm.delay]
                                      ELSE tm : tm \in active_timers}
                                ELSE TimersPopped(a, me.task)
    /\ closer' = [closer EXCEPT ![c] = [IdleCloser EXCEPT !.pc = "done"]]
    /\ UNCHANGED <<now, store_vars, bid_cache, bid_counts, guard_vars, notified,
                   bidder, creator, reader>>

\* Time passes while no chunk sleep is overdue: asyncio.sleep returns when
\* its time has come.
TickLong ==
    /\ now <= LongDuration
    /\ \A tm \in active_timers :
           (tm.delay > Chunk /\ ~tm.cancelled /\ ~Firing(tm.task))
           => now < tm.fires_at - tm.delay + Chunk
    /\ now' = now + 1
    /\ UNCHANGED <<store_vars, cache_vars, guard_vars, active_timers, notified,
                   bidder, closer, creator, reader>>

\* ------------------------------------------------------------ shutdown
\* TimerManager.cleanup up to its gather: the periodic sweep is cancelled
\* and awaited, then task.cancel() is called on every task stored in
\* active_timers, whose entries stay in place.
Cleanup_Start(c) ==
    /\ closer[c].pc = "idle"
    /\ \A d \in Closers : closer[d].origin # "cleanup"
    /\ active_timers' = {IF tm.registered THEN [tm EXCEPT !.cancelled = TRUE] ELSE tm :
                            tm \in active_timers}
    /\ closer' = [closer EXCEPT ![c] = [IdleCloser EXCEPT !.origin = "cleanup",
                                                         !.pc = "cleanup_wait"]]
    /\ UNCHANGED <<now, store_vars, cache_vars, guard_vars, notified, bidder, creator, reader>>

\* The sweep and the gathered timer tasks are over: active_timers.clear().
Cleanup_Done(c) ==
    /\ closer[c].pc = "cleanup_wait"
    /\ \A d \in Closers : closer[d].origin = "sweep" => closer[d].pc \in {"idle", "done"}
    /\ \A tm \in active_timers : ~tm.cancelled
    /\ active_timers' = {[tm EXCEPT !.registered = FALSE] : tm \in active_timers}
    /\ closer' = [closer EXCEPT ![c].pc = "stopped"]
    /\ UNCHANGED <<now, store_vars, cache_vars, guard_vars, notified, bidder, creator, reader>>

\* ------------------------------------------------- recovery at start-up
\* on_ready calls recover_active_auctions: get_expired_auctions is read.
Recover_Start(c, a) ==
    /\ closer[c].pc = "idle"
    /\ \A d \in Closers : closer[d].origin \in {"recovery", "rearm"} => closer[d].pc = "idle"
    /\ closer' = [closer EXCEPT ![c] =
           [IdleCloser EXCEPT !.origin = "recovery", !.auction_id = a,
                              !.pc = "recover_expired", !.row = SelectExpired(connection, a)]]
    /\ UNCHANGED <<now, store_vars, cache_vars, guard_vars, active_timers, notified,
                   bidder, creator, reader>>

\* First part: every expired auction goes to end_auction; with none, the
\* second part begins.
Recover_Expired(c) ==
    LET me == closer[c] IN
    /\ me.pc = "recover_expired"
    /\ IF me.row.status = "active"
       THEN CloseLookup(c, me)
       ELSE \E rank \in Ranks : RecoverActive(c, me, rank)
    /\ UNCHANGED <<now, store_vars, cache_vars, guard_vars, active_timers, notified,
                   bidder, creator, reader>>

\* Second part: an auction the query returned is re-armed through
\* schedule_auction_end when end_time > now and goes to end_auction
\* otherwise; one it did not return is left alone.
Recover_Active(c) ==
    LET me == closer[c]
        a == me.auction_id
        over == [IdleCloser EXCEPT !.pc = "done", !.origin = "rearm"] IN
    /\ me.pc = "recover_active"
    /\ IF me.row.status # "active"
       THEN closer' = [closer EXCEPT ![c] = over] /\ UNCHANGED active_timers
       ELSE IF me.row.ends_at > now
       THEN /\ CanArm
            /\ active_timers' = TimersArmed(a, me.row.ends_at)
            /\ closer' = [closer EXCEPT ![c] = over]
       ELSE CloseLookup(c, [me EXCEPT !.row = NoAuction]) /\ UNCHANGED active_timers
    /\ UNCHANGED <<now, store_vars, cache_vars, guard_vars, notified, bidder, creator, reader>>

\* The slot takes the next close.
Close_Recycle(c) ==
    /\ closer[c].pc = "done"
    /\ closer' = [closer EXCEPT ![c] = IdleCloser]
    /\ UNCHANGED <<now, store_vars, cache_vars, guard_vars, active_timers, notified,
                   bidder, creator, reader>>

\* ------------------------------------------- /subasta (create_auction)
IdleCreator == [pc |-> "idle", auction_id |-> 1, ends_at |-> 0, row |-> NoAuction, t0 |-> 0]

\* INSERT INTO auctions (...): current_price starts at starting_price,
\* status 'active', bid_count 0, no winner, no message id yet.
InsertAuction(st, a, owner, price, inc, ends) ==
    [st EXCEPT !.auctions[a] =
        [status |-> "active", creator_id |-> owner, starting_price |-> price,
         current_price |-> price, min_increment |-> inc, ends_at |-> ends,
         winner_id |-> None, message_id |-> None, bid_count |-> 0]]

\* AuctionCommands.create_auction: precio_inicial > 0, incremento_minimo > 0,
\* ends_at = now + duration; db.create_auction runs its INSERT.
Create_Start(a, price, inc, dur) ==
    /\ creator.pc = "idle"
    /\ connection.auctions[a].status = "absent"
    /\ price > 0
    /\ inc > 0
    /\ Writing(InsertAuction(connection, a, Owner, price, inc, now + dur))
    /\ creator' = [IdleCreator EXCEPT !.pc = "create_commit", !.auction_id = a,
                                      !.ends_at = now + dur]
    /\ UNCHANGED <<now, cache_vars, guard_vars, active_timers, notified, bidder, closer, reader>>

\* db.create_auction: the commit.
Create_Commit ==
    /\ creator.pc = "create_commit"
    /\ Committing
    /\ creator' = [creator EXCEPT !.pc = "preload"]
    /\ UNCHANGED <<now, cache_vars, guard_vars, active_timers, notified, bidder, closer, reader>>

\* preload_auction_data: get_auction_cached misses and reads the store.
Create_Preload ==
    /\ creator.pc = "preload"
    /\ creator' = [creator EXCEPT !.pc = "preload_fill", !.t0 = now,
                                  !.row = get_auction(connection, creator.auction_id)]
    /\ UNCHANGED <<now, store_vars, cache_vars, guard_vars, active_timers, notified,
                   bidder, closer, reader>>

\* The snapshot is cached; the embed is built and the auction message sent.
Create_PreloadFill ==
    /\ creator.pc = "preload_fill"
    /\ auction_cache' = AuctionFilled(auction_cache, creator.auction_id, creator.row, creator.t0)
    /\ creator' = [creator EXCEPT !.pc = "msgid_update", !.row = NoAuction, !.t0 = 0]
    /\ UNCHANGED <<now, store_vars, bid_cache, bid_counts, guard_vars, active_timers, notified,
                   bidder, closer, reader>>

\* UPDATE auctions SET message_id = ? WHERE id = ?
SetMessageId(st, a) ==
    IF st.auctions[a].status = "absent" THEN st
    ELSE [st EXCEPT !.auctions[a].message_id = "message"]

\* AuctionDatabase.update_auction_message_id: the UPDATE, then the commit.
Create_MessageIdUpdate ==
    /\ creator.pc = "msgid_update"
    /\ Writing(SetMessageId(connection, creator.auction_id))
    /\ creator' = [creator EXCEPT !.pc = "msgid_commit"]
    /\ UNCHANGED <<now, cache_vars, guard_vars, active_timers, notified, bidder, closer, reader>>

Create_MessageIdCommit ==
    /\ creator.pc = "msgid_commit"
    /\ Committing
    /\ creator' = [creator EXCEPT !.pc = "schedule"]
    /\ UNCHANGED <<now, cache_vars, guard_vars, active_timers, notified, bidder, closer, reader>>

\* invalidate_auction_cache, then TimerManager.schedule_auction_end: cancel
\* the auction's timer if any; end time already reached -> spawn end_auction;
\* otherwise register a timer task that wakes at the end time.
Create_Schedule ==
    LET a == creator.auction_id IN
    /\ creator.pc = "schedule"
    /\ auction_cache' = InvalidatedAuctions(a)
    /\ bid_cache' = InvalidatedBids(a)
    /\ bid_counts' = InvalidatedCounts(a)
    /\ IF creator.ends_at - now <= 0
       THEN /\ active_timers' = TimersWithout(a)
            /\ creator' = [creator EXCEPT !.pc = "spawn"]
       ELSE /\ CanArm
            /\ active_timers' = TimersArmed(a, creator.ends_at)
            /\ creator' = [creator EXCEPT !.pc = "finished"]
    /\ UNCHANGED <<now, store_vars, guard_vars, notified, bidder, closer, reader>>

\* --------------------------------- AuctionUtils.create_auction_embed
IdleReader == [pc |-> "idle", auction_id |-> 1, row |-> NoAuction, bids |-> <<>>, t0 |-> 0]

\* The embed's bid reads (get_auction_bids_cached): a hit ends the refresh,
\* a miss reads the store.
EmbedBids(me) ==
    IF BidsHit(me.auction_id)
    THEN reader' = IdleReader
    ELSE reader' = [me EXCEPT !.pc = "embed_bids_fill", !.row = NoAuction, !.t0 = now,
                              !.bids = get_auction_bids(connection, me.auction_id, BidsFetched)]

\* An embed refresh begins (after a bid, or a "view images" click):
\* get_auction_cached first.
Embed_Start(a) ==
    /\ reader.pc = "idle"
    /\ LET me == [IdleReader EXCEPT !.auction_id = a] IN
       IF AuctionHit(a)
       THEN EmbedBids(me)
       ELSE reader' = [me EXCEPT !.pc = "embed_auction_fill", !.t0 = now,
                                 !.row = get_auction(connection, a)]
    /\ UNCHANGED <<now, store_vars, cache_vars, guard_vars, active_timers, notified,
                   bidder, closer, creator>>

Embed_AuctionFill ==
    /\ reader.pc = "embed_auction_fill"
    /\ auction_cache' = AuctionFilled(auction_cache, reader.auction_id, reader.row, reader.t0)
    /\ IF reader.row.status = "absent"
       THEN reader' = IdleReader
       ELSE EmbedBids(reader)
    /\ UNCHANGED <<now, store_vars, bid_cache, bid_counts, guard_vars, active_timers, notified,
                   bidder, closer, creator>>

Embed_BidsFill ==
    /\ reader.pc = "embed_bids_fill"
    /\ bid_cache' = BidsFilled(bid_cache, reader.auction_id, reader.bids, reader.t0)
    /\ reader' = IdleReader
    /\ UNCHANGED <<now, store_vars, auction_cache, bid_counts, guard_vars, active_timers, notified,
                   bidder, closer, creator>>

\* CacheManager.get_bid_count(auction_id): a cached count is returned as it
\* is (no ttl); otherwise db.get_auction_bids(auction_id, 1000) is read.
BidCount_Start(a) ==
    /\ reader.pc = "idle"
    /\ ~bid_counts[a].present
    /\ reader' = [IdleReader EXCEPT !.auction_id = a, !.pc = "count_fill",
                                    !.bids = get_auction_bids(connection, a, CountFetched)]
    /\ UNCHANGED <<now, store_vars, cache_vars, guard_vars, active_timers, notified,
                   bidder, closer, creator>>

\* get_bid_count resumes: count = len(bids) is stored under the id, whatever
\* it is, and returned.
BidCount_Fill ==
    /\ reader.pc = "count_fill"
    /\ bid_counts' = [bid_counts EXCEPT ![reader.auction_id] =
                          [present |-> TRUE, count |-> Len(reader.bids)]]
    /\ reader' = IdleReader
    /\ UNCHANGED <<now, store_vars, auction_cache, bid_cache, guard_vars, active_timers,
                   notified, bidder, closer, creator>>

\* --------------------------------------------------------------- restart
\* The process stops and starts again: what the connection had not
\* committed is gone, every coroutine, timer task, cache entry and guard is
\* gone, the store is as committed.  A restart takes one unit of time.
Restart ==
    /\ now < MaxTime
    /\ now' = now + 1
    /\ connection' = committed
    /\ in_transaction' = FALSE
    /\ auction_cache' = [a \in AuctionIds |-> NoAuctionEntry]
    /\ bid_cache' = [a \in AuctionIds |-> NoBidsEntry]
    /\ bid_counts' = [a \in AuctionIds |-> NoCount]
    /\ user_cooldowns' = [u \in Users |-> 0]
    /\ bid_processing' = {}
    /\ active_timers' = {}
    /\ bidder' = [b \in Bidders |-> IdleBidder]
    /\ closer' = [c \in Closers |-> IdleCloser]
    /\ reader' = IdleReader
    /\ UNCHANGED <<committed, notified, creator>>

\* ------------------------------------------------------ cache cleanup
\* CacheManager.cleanup_task wakes (every cleanup_interval seconds after the
\* on_ready that spawned it) and runs cleanup_expired_cache: expired
\* snapshots and bids lists go; bid_counts is not looked at.
Cache_Sweep ==
    /\ auction_cache' = Swept(auction_cache, NoAuctionEntry)
    /\ bid_cache' = Swept(bid_cache, NoBidsEntry)
    /\ UNCHANGED <<now, store_vars, bid_counts, guard_vars, active_timers, notified,
                   bidder, closer, creator, reader>>

\* ------------------------------------------------------------------ time
Tick ==
    /\ now < MaxTime
    /\ now' = now + 1
    /\ UNCHANGED <<store_vars, cache_vars, guard_vars, active_timers, notified,
                   bidder, closer, creator, reader>>

\* ------------------------------------------------------- specification
\* The bot has started; no auction exists yet.
Init ==
    /\ now = 0
    /\ committed = EmptyStore
    /\ connection = EmptyStore
    /\ in_transaction = FALSE
    /\ auction_cache = [a \in AuctionIds |-> NoAuctionEntry]
    /\ bid_cache = [a \in AuctionIds |-> NoBidsEntry]
    /\ bid_counts = [a \in AuctionIds |-> NoCount]
    /\ user_cooldowns = [u \in Users |-> 0]
    /\ bid_processing = {}
    /\ active_timers = {}
    /\ notified = [a \in AuctionIds |-> 0]
    /\ bidder = [b \in Bidders |-> IdleBidder]
    /\ closer = [c \in Closers |-> IdleCloser]
    /\ creator = IdleCreator
    /\ reader = IdleReader

\* The row db.create_auction leaves for /subasta issued at time 0.
CreatedRow ==
    InsertAuction(EmptyStore, 1, Owner, 1, 1, Duration).auctions[1]

\* /subasta has sent the auction message (commands.py line 158) and is about
\* to record its id: the row is committed and the preload has cached it.
InitSent ==
    /\ now = 0
    /\ committed = [auctions |-> [a \in AuctionIds |-> CreatedRow], bids |-> <<>>]
    /\ connection = committed
    /\ in_transaction = FALSE
    /\ auction_cache = [a \in AuctionIds |->
                           [present |-> TRUE, row |-> CreatedRow, ttl |-> AuctionTtl]]
    /\ bid_cache = [a \in AuctionIds |-> NoBidsEntry]
    /\ bid_counts = [a \in AuctionIds |-> NoCount]
    /\ user_cooldowns = [u \in Users |-> 0]
    /\ bid_processing = {}
    /\ active_timers = {}
    /\ notified = [a \in AuctionIds |-> 0]
    /\ bidder = [b \in Bidders |-> IdleBidder]
    /\ closer = [c \in Closers |-> IdleCloser]
    /\ creator = [IdleCreator EXCEPT !.pc = "msgid_update", !.ends_at = Duration]
    /\ reader = IdleReader

\* /subasta has returned: message id recorded, cache invalidated, timer armed.
InitArmed ==
    /\ now = 0
    /\ committed = [auctions |-> [a \in AuctionIds |->
                                     [CreatedRow EXCEPT !.message_id = "message"]],
                    bids |-> <<>>]
    /\ connection = committed
    /\ in_transaction = FALSE
    /\ auction_cache = [a \in AuctionIds |-> NoAuctionEntry]
    /\ bid_cache = [a \in AuctionIds |-> NoBidsEntry]
    /\ bid_counts = [a \in AuctionIds |-> NoCount]
    /\ user_cooldowns = [u \in Users |-> 0]
    /\ bid_processing = {}
    /\ active_timers = {[id |-> a, fires_at |-> Duration, task |-> a,
                          registered |-> TRUE, cancelled |-> FALSE] : a \in AuctionIds}
    /\ notified = [a \in AuctionIds |-> 0]
    /\ bidder = [b \in Bidders |-> IdleBidder]
    /\ closer = [c \in Closers |-> IdleCloser]
    /\ creator = [IdleCreator EXCEPT !.pc = "finished", !.ends_at = Duration]
    /\ reader = IdleReader

\* Bid requests arriving through entry points es from users us with amounts
\* amts, served by coroutine slots bs.  Slots are interchangeable: a request
\* takes "b1" unless "b1" is taken.
Requests(bs, es, us, amts) ==
    \E b \in bs, e \in es, u \in us, a \in AuctionIds, amt \in amts :
        /\ b = "b1" \/ bidder["b1"].pc # "idle"
        /\ Bid_Start(b, e, u, a, amt)

\* The steps of a custom-bid modal submission: it never reads the cache
\* before place_bid_optimized.
ModalSteps(b) ==
    \/ Bid_Deferred(b)
    \/ PlaceBid_Begin(b) \/ PlaceBid_Select(b) \/ PlaceBid_Validate(b)
    \/ PlaceBid_Rollback(b) \/ PlaceBid_Except(b) \/ PlaceBid_SelectPrev(b)
    \/ PlaceBid_Insert(b) \/ PlaceBid_Update(b) \/ PlaceBid_Commit(b)
    \/ Bid_Post(b) \/ Bid_ConfirmFill(b) \/ Bid_Reply(b)

BidSteps(b) == Bid_LookupFill(b) \/ ModalSteps(b)

\* The steps of a custom-bid modal submission that place_bid_optimized
\* turns down.
LateBidSteps(b) ==
    \/ Bid_Deferred(b)
    \/ PlaceBid_Begin(b) \/ PlaceBid_Select(b) \/ PlaceBid_Validate(b)
    \/ PlaceBid_Rollback(b) \/ PlaceBid_Except(b)
    \/ Bid_Reply(b)

\* Closes begun from origins os in coroutine slots cs.
ClosesBy(cs, os) ==
    \E c \in cs, o \in os, a \in AuctionIds : Close_Start(c, o, a)

\* Closes begun from origins os, one at a time.
Closes(os) == ClosesBy({"c1"}, os)

CloseSteps(c) ==
    \/ Close_FinalizeCheck(c) \/ Close_AuctionFill(c)
    \/ Close_BidsFill(c) \/ Close_EndUpdate(c) \/ Close_EndCommit(c)
    \/ Close_EndPost(c) \/ Close_Return(c)

MessageIdSteps ==
    \/ Create_MessageIdUpdate \/ Create_MessageIdCommit \/ Create_Schedule

CreateSteps ==
    \/ \E a \in AuctionIds, p \in Prices, i \in Increments : Create_Start(a, p, i, Duration)
    \/ Create_Commit \/ Create_Preload \/ Create_PreloadFill
    \/ MessageIdSteps

BidCountSteps == (\E a \in AuctionIds : BidCount_Start(a)) \/ BidCount_Fill

EmbedSteps ==
    \/ \E a \in AuctionIds : Embed_Start(a)
    \/ Embed_AuctionFill \/ Embed_BidsFill

\* The whole program.
Next ==
    \/ Requests(Bidders, Entries, Users, 0..MaxAmount)
    \/ \E b \in Bidders : BidSteps(b) \/ Bid_Recycle(b)
    \/ ClosesBy(Closers, {"timer", "scheduled", "finalize", "sweep"})
    \/ \E c \in Closers : CloseSteps(c) \/ Close_AuctionRetry(c) \/ Close_Recycle(c)
    \/ \E c \in Closers : Close_SweepCheck(c) \/ Close_Cancelled(c)
    \/ Timer_Cancelled
    \/ CreateSteps
    \/ EmbedSteps
    \/ Tick

Spec == Init /\ [][Next]_vars

\* Two bids race on the shared connection while /subasta records the
\* message id; the clock stands still.
NextRace ==
    \/ Requests(Bidders, {"modal", "quick"}, {"x", "y"}, 0..MaxAmount)
    \/ \E b \in Bidders : BidSteps(b)
    \/ MessageIdSteps

SpecRace == InitSent /\ [][NextRace]_vars

\* Bids of the owner and of another user through every entry point, with
\* the clock running.
NextOwner ==
    \/ Requests(Bidders, Entries, {Owner, "x"}, 0..MaxAmount)
    \/ \E b \in Bidders : BidSteps(b)
    \/ Tick

SpecOwner == InitArmed /\ [][NextOwner]_vars

\* Bids one after another against closes by the timer and by /finalizar.
NextClose ==
    \/ Requests({"b1"}, {"modal"}, {"x", "y"}, 2..MaxAmount)
    \/ ModalSteps("b1") \/ Bid_Recycle("b1")
    \/ Closes({"timer", "finalize"})
    \/ \E c \in Closers : CloseSteps(c) \/ Close_Recycle(c)
    \/ Timer_Cancelled
    \/ Tick

SpecClose == InitArmed /\ [][NextClose]_vars

\* Bids one after another, embed refreshes and a /finalizar, inside the
\* lifetime of one bid-cache entry.
NextWinner ==
    \/ Requests({"b1"}, {"modal"}, {"x", "y"}, 2..MaxAmount)
    \/ ModalSteps("b1") \/ Bid_ReplyFail("b1") \/ Bid_Recycle("b1")
    \/ Closes({"finalize"})
    \/ \E c \in Closers : CloseSteps(c)
    \/ Timer_Cancelled
    \/ EmbedSteps

SpecWinner == InitArmed /\ [][NextWinner]_vars

\* One auction from /subasta to its close, with one bid.
NextLife ==
    \/ CreateSteps
    \/ Requests({"b1"}, {"modal"}, {"x"}, 2..MaxAmount)
    \/ ModalSteps("b1")
    \/ Closes({"timer", "scheduled", "finalize"})
    \/ \E c \in Closers : CloseSteps(c) \/ Close_AuctionRetry(c)
    \/ Timer_Cancelled
    \/ Tick

SpecLife == Init /\ [][NextLife]_vars

\* Two closes of one auction at the same time, from its timer, from the
\* periodic expiry sweep and from /finalizar.
NextCloseRace ==
    \/ ClosesBy(Closers, {"timer", "sweep", "finalize"})
    \/ \E c \in Closers : CloseSteps(c) \/ Close_SweepCheck(c) \/ Close_Cancelled(c)
    \/ Timer_Cancelled
    \/ Requests({"b1"}, {"modal"}, {"x"}, 2..MaxAmount)
    \/ ModalSteps("b1")
    \/ Tick

SpecCloseRace == InitArmed /\ [][NextCloseRace]_vars

RecoverSteps(c) ==
    \/ \E a \in AuctionIds : Recover_Start(c, a)
    \/ Recover_Expired(c) \/ Recover_Active(c)

\* The process restarts at any time of the auction's life; each start runs
\* the recovery sweep once; timers fire, the periodic sweep runs and
\* /finalizar is used.
NextRecover ==
    \/ Restart
    \/ RecoverSteps("c1")
    \/ ClosesBy({"c2"}, {"timer", "sweep", "finalize"})
    \/ \E c \in Closers : CloseSteps(c) \/ Close_SweepCheck(c) \/ Close_Cancelled(c)
    \/ Close_Recycle("c2")
    \/ Timer_Cancelled
    \/ Tick

SpecRecover == InitArmed /\ [][NextRecover]_vars

\* One process in which on_ready fires again and again (the gateway session
\* is re-established): each time the recovery sweep re-arms the auction
\* that /subasta had armed.
NextReconnect ==
    \/ RecoverSteps("c1") \/ Close_Recycle("c1")
    \/ ClosesBy({"c2"}, {"timer", "finalize"})
    \/ \E c \in Closers : CloseSteps(c) \/ Close_Cancelled(c)
    \/ Timer_Cancelled
    \/ Tick

SpecReconnect == InitArmed /\ [][NextReconnect]_vars

\* /subasta schedules the end of its auction, in time or late; the timer
\* fires unless /finalizar closed the auction first.
NextSchedule ==
    \/ CreateSteps
    \/ Closes({"timer", "scheduled", "finalize"})
    \/ \E c \in Closers : CloseSteps(c)
    \/ Timer_Cancelled
    \/ Tick

SpecSchedule == Init /\ [][NextSchedule]_vars

\* The end time of the armed auction has come.
InitDue ==
    /\ now = Duration
    /\ committed = [auctions |-> [a \in AuctionIds |->
                                     [CreatedRow EXCEPT !.message_id = "message"]],
                    bids |-> <<>>]
    /\ connection = committed
    /\ in_transaction = FALSE
    /\ auction_cache = [a \in AuctionIds |-> NoAuctionEntry]
    /\ bid_cache = [a \in AuctionIds |-> NoBidsEntry]
    /\ bid_counts = [a \in AuctionIds |-> NoCount]
    /\ user_cooldowns = [u \in Users |-> 0]
    /\ bid_processing = {}
    /\ active_timers = {[id |-> a, fires_at |-> Duration, task |-> a,
                          registered |-> TRUE, cancelled |-> FALSE] : a \in AuctionIds}
    /\ notified = [a \in AuctionIds |-> 0]
    /\ bidder = [b \in Bidders |-> IdleBidder]
    /\ closer = [c \in Closers |-> IdleCloser]
    /\ creator = [IdleCreator EXCEPT !.pc = "finished", !.ends_at = Duration]
    /\ reader = IdleReader

\* The ways an expired auction gets closed: its timer, the periodic sweep
\* (again and again), /finalizar, the recovery sweep of on_ready in this
\* process or after a restart; the store write of a close may fail, and a
\* late bid arrives.
NextExpiry ==
    \/ ClosesBy({"c1"}, {"timer", "sweep", "finalize"})
    \/ RecoverSteps("c2")
    \/ \E c \in Closers : CloseSteps(c) \/ Close_SweepCheck(c) \/ Close_Cancelled(c)
    \/ \E c \in Closers : Close_EndFail(c) \/ Close_Recycle(c)
    \/ Requests({"b1"}, {"modal"}, {"x"}, {MaxAmount})
    \/ LateBidSteps("b1")
    \/ Timer_Cancelled
    \/ Restart
    \/ Tick

\* The event loop resumes every coroutine that can go on, the periodic sweep
\* and on_ready come round, and a store write that is tried again and again
\* succeeds in the end.
FairExpiry ==
    /\ WF_vars(Tick)
    /\ WF_vars(Timer_Cancelled)
    /\ WF_vars(LateBidSteps("b1"))
    /\ WF_vars(ClosesBy({"c1"}, {"timer"}))
    /\ WF_vars(ClosesBy({"c1"}, {"sweep"}))
    /\ WF_vars(RecoverSteps("c2"))
    /\ \A c \in Closers :
           /\ WF_vars(CloseSteps(c) \/ Close_SweepCheck(c) \/ Close_Cancelled(c))
           /\ WF_vars(Close_Recycle(c))
           /\ SF_vars(Close_EndUpdate(c))

SpecExpiry == InitDue /\ [][NextExpiry]_vars /\ FairExpiry

\* Every writer and reader of the cache around one auction: /subasta
\* recording the message id, bids through every entry point one after
\* another, embed refreshes and /finalizar; the clock stands still.
NextCache ==
    \/ MessageIdSteps
    \/ Requests({"b1"}, Entries, {"x"}, {0, MaxAmount})
    \/ BidSteps("b1") \/ Bid_Recycle("b1")
    \/ Closes({"finalize"})
    \/ \E c \in Closers : CloseSteps(c)
    \/ EmbedSteps
    \/ BidCountSteps
    \/ Timer_Cancelled

SpecCache == InitSent /\ [][NextCache]_vars

\* Lookups of an auction id before, while and after /subasta creates it:
\* embed refreshes, quick bids and /pujar.
NextLookup ==
    \/ CreateSteps
    \/ BidCountSteps
    \/ Requests({"b1"}, {"quick", "slash"}, {"x"}, {0, MaxAmount})
    \/ BidSteps("b1") \/ Bid_Recycle("b1")
    \/ EmbedSteps

SpecLookup == Init /\ [][NextLookup]_vars

\* Lookups of every kind while the clock runs past the entries' expiry,
\* with and without the periodic cache cleanup: embed refreshes, quick
\* bids and /pujar while /subasta records the message id, get_bid_count.
NextTtl ==
    \/ MessageIdSteps
    \/ Requests({"b1"}, {"quick", "slash"}, {"x"}, {0})
    \/ BidSteps("b1") \/ Bid_Recycle("b1")
    \/ EmbedSteps
    \/ BidCountSteps
    \/ Cache_Sweep
    \/ Tick

SpecTtl == InitSent /\ [][NextTtl]_vars

\* Two requests by two users, or by one, through the three entry points, one
\* after the other or together; the clock stands still.
NextGuard ==
    \/ Requests(Bidders, Entries, {"x", "y"}, {0, MaxAmount})
    \/ \E b \in Bidders : BidSteps(b)

SpecGuard == InitArmed /\ [][NextGuard]_vars

\* The event loop resumes every bid coroutine whose await has completed.
FairGuard == \A b \in Bidders : WF_vars(BidSteps(b))

SpecGuardLive == InitArmed /\ [][NextGuard]_vars /\ FairGuard

\* An auction that lasts longer than two chunks has been created and its
\* timer armed; /finalizar may close it early, and a store read may fail.
InitLong ==
    /\ now = 0
    /\ committed = [auctions |-> [a \in AuctionIds |->
                                     [CreatedRow EXCEPT !.message_id = "message",
                                                        !.ends_at = LongDuration]],
                    bids |-> <<>>]
    /\ connection = committed
    /\ in_transaction = FALSE
    /\ auction_cache = [a \in AuctionIds |-> NoAuctionEntry]
    /\ bid_cache = [a \in AuctionIds |-> NoBidsEntry]
    /\ bid_counts = [a \in AuctionIds |-> NoCount]
    /\ user_cooldowns = [u \in Users |-> 0]
    /\ bid_processing = {}
    /\ active_timers = {[id |-> a, fires_at |-> LongDuration, task |-> a,
                          registered |-> TRUE, cancelled |-> FALSE,
                          delay |-> LongDuration] : a \in AuctionIds}
    /\ notified = [a \in AuctionIds |-> 0]
    /\ bidder = [b \in Bidders |-> IdleBidder]
    /\ closer = [c \in Closers |-> IdleCloser]
    /\ creator = [IdleCreator EXCEPT !.pc = "finished", !.ends_at = LongDuration]
    /\ reader = IdleReader

NextChunk ==
    \/ \E failed \in BOOLEAN : Timer_ChunkCheck("c2", failed)
    \/ Timer_ChunkFill("c2")
    \/ ClosesBy({"c1"}, {"timer", "finalize"})
    \/ CloseSteps("c1")
    \/ \E c \in Closers : Close_Recycle(c)
    \/ Timer_Cancelled
    \/ TickLong

SpecChunk == InitLong /\ [][NextChunk]_vars

\* One process from the armed auction to its shutdown: on_ready re-arms
\* the auction any number of times, timers fire, the periodic sweep and
\* /finalizar close, and TimerManager.cleanup runs once.
NextStop ==
    \/ RecoverSteps("c1") \/ Close_Recycle("c1")
    \/ ClosesBy({"c2"}, {"timer", "sweep", "finalize"})
    \/ \E c \in Closers : CloseSteps(c) \/ Close_SweepCheck(c) \/ Close_Cancelled(c)
    \/ Close_Recycle("c2")
    \/ Timer_Cancelled
    \/ Cleanup_Start("c1") \/ Cleanup_Done("c1")
    \/ Tick

SpecStop == InitArmed /\ [][NextStop]_vars

\* One custom-bid submission, too low or valid, while /subasta records the
\* message id on the same connection and another process may hold the
\* database lock.
NextAbort ==
    \/ MessageIdSteps
    \/ Requests({"b1"}, {"modal"}, {"x"}, {1, MaxAmount})
    \/ ModalSteps("b1") \/ PlaceBid_Locked("b1")

SpecAbort == InitSent /\ [][NextAbort]_vars

\* Bids of one coroutine at a time whose statements may each fail with
\* "database is locked" (another process holds the database file).
NextRetry ==
    \/ Requests({"b1"}, Entries, {Owner, "x"}, {0, MaxAmount})
    \/ BidSteps("b1") \/ PlaceBid_Locked("b1") \/ Lookup_Locked("b1") \/ Bid_Recycle("b1")

SpecRetry == InitArmed /\ [][NextRetry]_vars

\* Every attempt of a statement comes back, with a result or with a failure
\* (sqlite gives up waiting for the lock after busy_timeout).
FairRetry == WF_vars(BidSteps("b1") \/ PlaceBid_Locked("b1"))

SpecRetryLive == SpecRetry /\ FairRetry

\* ------------------------------------------------------------- claims
\* The bid rows of auction a in store view st, in insertion order.
BidsOf(st, a) == SelectSeq(st.bids, LAMBDA r : r.auction_id = a)

\* The user of the most recent bid of auction a in store view st.
LatestBidder(st, a) ==
    LET top == get_auction_bids(st, a, 1) IN
    IF top = <<>> THEN None ELSE top[1].user_id

\* No bid coroutine is running and the connection has no open transaction.
Quiescent ==
    /\ ~in_transaction
    /\ \A b \in Bidders : bidder[b].pc \in {"idle", "done"}

\* C1: concurrent bids on one auction are serialized (no lost update): in the
\* committed store each bid row is at least min_increment above the row
\* committed before it, and once all bid coroutines have finished the
\* auction's current_price is the amount of the bid row committed last.
C1_NoLostUpdate ==
    \A a \in AuctionIds :
        LET rows == BidsOf(committed, a)
            row == committed.auctions[a] IN
        /\ \A i \in 1..(Len(rows) - 1) :
               rows[i + 1].amount >= rows[i].amount + row.min_increment
        /\ (Quiescent /\ rows # <<>>) => row.current_price = rows[Len(rows)].amount

\* C2: no commit makes durable a bid whose amount is below the store's
\* current_price + min_increment as they stand when the commit happens.
C2_CommitsAtLeastMinimum ==
    [][\A a \in AuctionIds :
          LET before == BidsOf(committed, a)
              after == BidsOf(committed', a) IN
          \A i \in (Len(before) + 1)..Len(after) :
              after[i].amount >= committed.auctions[a].current_price
                                 + committed.auctions[a].min_increment]_vars

\* C3: no bid row, committed or pending on the connection, belongs to the
\* creator of its auction; a bid coroutine of the owner never passes the
\* validations of place_bid_optimized, and no entry point answers it with
\* an acceptance or with a later validation's error (expired, below minimum).
C3_NoOwnerBid ==
    /\ \A st \in {committed, connection} : \A i \in 1..Len(st.bids) :
           st.bids[i].user_id # st.auctions[st.bids[i].auction_id].creator_id
    /\ \A b \in Bidders :
           bidder[b].user_id = committed.auctions[bidder[b].auction_id].creator_id
           => /\ bidder[b].pc \notin {"select_prev", "insert", "update", "commit",
                                      "post", "confirm_fill"}
              /\ bidder[b].reply \in {"none", "self_bid", "not_found", "inactive",
                                      "internal", "processing", "invalid"}

\* C3, reached: the owner's quick bid and the owner's custom bid are both
\* about to be answered with the self-bid error.
C3_OwnerRejected ==
    \E b, d \in Bidders :
        /\ bidder[b].user_id = Owner /\ bidder[b].entry = "quick"
        /\ bidder[b].pc = "reply" /\ bidder[b].reply = "self_bid"
        /\ bidder[d].user_id = Owner /\ bidder[d].entry = "modal"
        /\ bidder[d].pc = "reply" /\ bidder[d].reply = "self_bid"

\* C4: once the store says 'ended', the auction's bid rows, current_price and
\* bid_count never change again.
C4_EndedIsFrozen ==
    [][\A a \in AuctionIds :
          committed.auctions[a].status = "ended"
          => /\ BidsOf(committed', a) = BidsOf(committed, a)
             /\ committed'.auctions[a].current_price = committed.auctions[a].current_price
             /\ committed'.auctions[a].bid_count = committed.auctions[a].bid_count]_vars

\* C5: every committed bid row has created_at <= ends_at of its auction.
C5_BidsBeforeEnd ==
    \A i \in 1..Len(committed.bids) :
        committed.bids[i].created_at <= committed.auctions[committed.bids[i].auction_id].ends_at

\* C6: the store's current_price of an auction never decreases.
C6_PriceNeverDecreases ==
    [][\A a \in AuctionIds :
          committed'.auctions[a].current_price >= committed.auctions[a].current_price]_vars

\* C7: in the store an auction's status only goes from 'active' to 'ended'
\* (an ended auction stays ended, an existing one never becomes absent), and
\* ends_at of an existing auction never changes.
C7_StatusAndEndTime ==
    [][\A a \in AuctionIds :
          LET old == committed.auctions[a]
              new == committed'.auctions[a] IN
          /\ old.status = "ended" => new.status = "ended"
          /\ old.status = "active" => new.status \in {"active", "ended"}
          /\ old.status # "absent" => new.ends_at = old.ends_at]_vars

\* C7, reached: the auction has had its message id recorded, has taken a
\* bid and has been closed, and its ends_at is the one set at creation.
C7_Lived ==
    \E a \in AuctionIds :
        /\ committed.auctions[a].status = "ended"
        /\ committed.auctions[a].message_id # None
        /\ BidsOf(committed, a) # <<>>
        /\ committed.auctions[a].ends_at = creator.ends_at

\* C8: in every committed state bid_count is the number of the auction's bid
\* rows and current_price is the amount of its most recent bid (the starting
\* price when it has none).
C8_BidAllOrNothing ==
    \A a \in AuctionIds :
        LET row == committed.auctions[a]
            top == get_auction_bids(committed, a, 1) IN
        row.status # "absent"
        => /\ row.bid_count = Len(BidsOf(committed, a))
           /\ row.current_price = IF top = <<>> THEN row.starting_price ELSE top[1].amount

\* C9: /finalizar on an auction the store already holds as 'ended' ends as
\* a success (the no-op of end_auction), never as an error.
C9_FinalizeEndedIsSuccess ==
    \A c \in Closers :
        (/\ closer[c].origin = "finalize"
         /\ closer[c].pc = "return"
         /\ committed.auctions[closer[c].auction_id].status = "ended")
        => closer[c].reply \in {"noop", "success"}

\* C10: when the store's row becomes 'ended', its winner_id is the user of
\* the most recent bid the store holds for the auction (None without bids).
C10_WinnerIsLatestBidder ==
    [][\A a \in AuctionIds :
          (committed.auctions[a].status # "ended" /\ committed'.auctions[a].status = "ended")
          => committed'.auctions[a].winner_id = LatestBidder(committed', a)]_vars

\* C11: the close re-verifies the status against the store before it writes:
\* once the store holds the auction as 'ended', no end_auction UPDATE runs
\* for it (status, winner_id and last_updated stay as they are).
C11_NoWriteOnceEnded ==
    [][\A c \in Closers :
          (/\ closer[c].pc = "end_update"
           /\ committed.auctions[closer[c].auction_id].status = "ended")
          => closer'[c].pc = "end_update"]_vars

\* C12: when two closes of one auction race, no end_auction fails, the
\* winner_id the store holds for the ended auction never changes, and the
\* auction-closed notification is started at most once.
C12_RacingClosesCloseOnce ==
    [][\A a \in AuctionIds :
          /\ notified'[a] <= 1
          /\ committed.auctions[a].status = "ended"
             => committed'.auctions[a].winner_id = committed.auctions[a].winner_id
          /\ \A c \in Closers :
                 (closer'[c].pc = "return" /\ closer'[c].auction_id = a)
                 => closer'[c].reply # "failed"]_vars

\* The timer tasks of auction a on which cancel() has not been called.
LiveTimers(timers, a) == {tm \in timers : tm.id = a /\ ~tm.cancelled}

\* Coroutine state me is inside TimerManager.end_auction.
InEndAuction(me) ==
    me.pc \in {"auction_fill", "bids_fill", "end_update", "end_commit", "end_post", "return"}

C14_RecoveryArmsEveryAuction ==
    [][\A c \in Closers :
          (closer[c].pc # "done" /\ closer'[c].pc = "done" /\ closer'[c].origin = "rearm")
          => \A a \in AuctionIds :
                 (committed'.auctions[a].status = "active"
                  /\ committed'.auctions[a].ends_at > now)
                 => \E tm \in LiveTimers(active_timers', a) : tm.registered]_vars

\* C15: at most one timer task per auction id is live (neither finished nor
\* cancelled), and a live task is the one registered under the id in
\* active_timers.
C15_OneRegisteredTimer ==
    \A a \in AuctionIds :
        /\ Cardinality(LiveTimers(active_timers, a)) <= 1
        /\ \A tm \in LiveTimers(active_timers, a) : tm.registered

C17_ExpiredIsEnded ==
    \A a \in AuctionIds :
        (committed.auctions[a].status = "active" /\ now >= committed.auctions[a].ends_at)
        ~> committed.auctions[a].status = "ended"


\* A step in which invalidate_auction_cache(a) runs: the bid entry points
\* after an accepted bid, end_auction after db.end_auction succeeded,
\* /subasta after update_auction_message_id.
InvalidateStep(a) ==
    \/ \E b \in Bidders :
           bidder[b].pc = "post" /\ bidder[b].auction_id = a /\ bidder'[b].pc # "post"
    \/ \E c \in Closers :
           /\ closer[c].pc = "end_post" /\ closer[c].auction_id = a
           /\ closer'[c].pc = "return" /\ closer'[c].reply = "success"
    \/ creator.pc = "schedule" /\ creator.auction_id = a /\ creator'.pc # "schedule"

\* A step in which get_auction_cached stores the row the store answered for
\* auction a (the put of the snapshot).
AuctionPutStep(a) ==
    \/ \E b \in Bidders :
           /\ bidder[b].pc \in {"lookup_fill", "confirm_fill"} /\ bidder[b].auction_id = a
           /\ bidder'[b].pc # bidder[b].pc
           /\ auction_cache'[a].row = bidder[b].row
    \/ \E c \in Closers :
           /\ closer[c].pc = "auction_fill" /\ closer[c].auction_id = a
           /\ closer'[c].pc # "auction_fill"
           /\ auction_cache'[a].row = closer[c].row
    \/ /\ creator.pc = "preload_fill" /\ creator.auction_id = a
       /\ creator'.pc # "preload_fill"
       /\ auction_cache'[a].row = creator.row
    \/ /\ reader.pc = "embed_auction_fill" /\ reader.auction_id = a
       /\ reader'.pc # "embed_auction_fill"
       /\ auction_cache'[a].row = reader.row

\* A step in which get_auction_bids_cached stores the list the store
\* answered for auction a (the put of the bids list).
BidsPutStep(a) ==
    \/ \E c \in Closers :
           /\ closer[c].pc = "bids_fill" /\ closer[c].auction_id = a
           /\ closer'[c].pc # "bids_fill"
           /\ bid_cache'[a].bids = closer[c].bids
    \/ /\ reader.pc = "embed_bids_fill" /\ reader.auction_id = a
       /\ reader'.pc # "embed_bids_fill"
       /\ bid_cache'[a].bids = reader.bids

\* A step in which get_bid_count stores the count it read for auction a.
CountPutStep(a) ==
    /\ reader.pc = "count_fill" /\ reader.auction_id = a
    /\ reader'.pc # "count_fill"
    /\ bid_counts'[a].count = Len(reader.bids)

\* C18: right after invalidate_auction_cache(a) neither the snapshot, nor
\* the bids list, nor the bid count of a is in the cache (a lookup misses),
\* and an entry of a comes back only through the put of a read-through
\* lookup, holding what that lookup read from the store.
C18_InvalidatedIsMiss ==
    [][\A a \in AuctionIds :
          /\ InvalidateStep(a)
             => ~AuctionHit(a)' /\ ~BidsHit(a)' /\ ~bid_counts'[a].present
          /\ (~auction_cache[a].present /\ auction_cache'[a].present) => AuctionPutStep(a)
          /\ (~bid_cache[a].present /\ bid_cache'[a].present) => BidsPutStep(a)
          /\ (~bid_counts[a].present /\ bid_counts'[a].present) => CountPutStep(a)]_vars

\* C18 witness: an accepted quick bid or modal bid has invalidated the
\* auction's entries (the preloaded snapshot among them) and its
\* confirmation lookup has missed and is reading the store.
C18_MissAfterInvalidate ==
    \E b \in Bidders :
        /\ bidder[b].pc = "confirm_fill"
        /\ ~AuctionHit(bidder[b].auction_id)
        /\ ~BidsHit(bidder[b].auction_id)
        /\ committed.auctions[bidder[b].auction_id].bid_count > 0


\* A coroutine whose write to auction a has been committed and whose next
\* statement is invalidate_auction_cache(a): place_bid_optimized returned
\* success to a bid entry point, db.end_auction returned True to
\* end_auction, update_auction_message_id returned to /subasta.
OwesInvalidation(a) ==
    \/ \E b \in Bidders : bidder[b].pc = "post" /\ bidder[b].auction_id = a
    \/ \E c \in Closers : closer[c].pc = "end_post" /\ closer[c].auction_id = a
    \/ creator.pc = "schedule" /\ creator.auction_id = a

\* The cache holds no snapshot, no bids list and no bid count of auction a.
NothingCached(a) ==
    ~auction_cache[a].present /\ ~bid_cache[a].present /\ ~bid_counts[a].present

\* The step takes a coroutine past the invalidation it owed for auction a.
LeavesOwing(a) ==
    \/ \E b \in Bidders :
           bidder[b].pc = "post" /\ bidder[b].auction_id = a /\ bidder'[b].pc # "post"
    \/ \E c \in Closers :
           closer[c].pc = "end_post" /\ closer[c].auction_id = a /\ closer'[c].pc # "end_post"
    \/ creator.pc = "schedule" /\ creator.auction_id = a /\ creator'.pc # "schedule"

C20_AbsentNotCached ==
    [][\A a \in AuctionIds :
          /\ \A b \in Bidders :
                 (/\ bidder[b].pc = "lookup_fill" /\ bidder[b].auction_id = a
                  /\ bidder[b].row.status = "absent"
                  /\ bidder'[b] # bidder[b])
                 => /\ auction_cache'[a] = auction_cache[a]
                    /\ bidder'[b].reply = "not_found"
          /\ (/\ reader.pc = "embed_auction_fill" /\ reader.auction_id = a
              /\ reader.row.status = "absent"
              /\ reader' # reader)
             => auction_cache'[a] = auction_cache[a]
          /\ (/\ reader.pc = "embed_bids_fill" /\ reader.auction_id = a
              /\ reader.bids = <<>>
              /\ reader' # reader)
             => bid_cache'[a] = bid_cache[a]
          /\ (/\ reader.pc = "count_fill" /\ reader.auction_id = a
              /\ connection.auctions[a].status = "absent"
              /\ reader' # reader)
             => bid_counts'[a] = bid_counts[a]
          /\ \A b \in Bidders :
                 (/\ bidder[b].pc \in {"idle", "deferred"}
                  /\ bidder'[b].pc \notin {"idle", "deferred"}
                  /\ bidder'[b].auction_id = a
                  /\ connection.auctions[a].status # "absent")
                 => /\ bidder'[b].reply # "not_found"
                    /\ bidder'[b].pc = "lookup_fill"
                       => bidder'[b].row = connection.auctions[a]]_vars


\* A step of cleanup_expired_cache: the cache changes and nothing else does.
SweepStep ==
    /\ <<auction_cache, bid_cache>>' # <<auction_cache, bid_cache>>
    /\ UNCHANGED <<now, store_vars, guard_vars, active_timers, notified,
                   bidder, closer, creator, reader>>

\* C21: an entry of any kind is served only while now < its expiry: a
\* quick bid or an embed refresh that finds the snapshot expired reads the
\* store, an embed refresh that finds the bids list expired reads the
\* store, a bid count is served only while an expiry kept for it lies
\* ahead, and the cleanup removes exactly the entries whose expiry <= now.
C21_ServedOnlyBeforeExpiry ==
    [][\A a \in AuctionIds :
          /\ \A b \in Bidders :
                 (/\ bidder[b].pc = "idle" /\ bidder'[b].entry = "quick"
                  /\ bidder'[b].auction_id = a /\ bidder'[b].pc \in {"begin", "lookup_fill"})
                 => (bidder'[b].pc = "begin") = (auction_cache[a].present
                                                 /\ now < auction_cache[a].ttl)
          /\ (/\ reader.pc = "idle" /\ reader'.auction_id = a
              /\ reader'.pc \in {"embed_auction_fill", "embed_bids_fill"})
             => (reader'.pc = "embed_bids_fill") = (auction_cache[a].present
                                                    /\ now < auction_cache[a].ttl)
          /\ (/\ reader.pc \in {"idle", "embed_auction_fill"} /\ reader'.auction_id = a
              /\ reader'.pc = "embed_bids_fill")
             => ~(bid_cache[a].present /\ now < bid_cache[a].ttl)
          /\ (/\ reader.pc = "embed_auction_fill" /\ reader.auction_id = a
              /\ reader.row.status # "absent" /\ reader'.pc = "idle")
             => bid_cache[a].present /\ now < bid_cache[a].ttl
          /\ CountHit(a) => "ttl" \in DOMAIN bid_counts[a] /\ now < bid_counts[a].ttl
          /\ SweepStep
             => /\ auction_cache'[a].present
                   = (auction_cache[a].present /\ ~(auction_cache[a].ttl <= now))
                /\ bid_cache'[a].present
                   = (bid_cache[a].present /\ ~(bid_cache[a].ttl <= now))]_vars


\* A step in which a bid coroutine of user u calls set_bid_processing(u, flag).
MarkerStep(u, flag) ==
    \E b \in Bidders :
        /\ bidder[b].marked = ~flag
        /\ IF flag THEN bidder'[b].marked /\ bidder'[b].user_id = u
                   ELSE ~bidder'[b].marked /\ bidder[b].user_id = u

\* C22: the in-flight marker is a per-actor flag: it is set for X exactly by
\* a set_bid_processing(X, True) and stays set until a
\* set_bid_processing(X, False), which clears it; the in-flight check of a
\* new attempt by X answers "in flight" exactly while the flag is set; what
\* another actor's attempts do leaves X's flag alone.
C22_MarkerIsPerActorFlag ==
    [][\A u \in Users :
          /\ (~is_bid_processing(u) /\ is_bid_processing(u)') => MarkerStep(u, TRUE)
          /\ MarkerStep(u, TRUE) => is_bid_processing(u)'
          /\ (is_bid_processing(u) /\ ~is_bid_processing(u)') => MarkerStep(u, FALSE)
          /\ MarkerStep(u, FALSE) => ~is_bid_processing(u)'
          /\ \A b \in Bidders :
                 (/\ bidder[b].pc = "idle" /\ bidder'[b].pc # "idle"
                  /\ bidder'[b].user_id = u /\ bidder'[b].entry \in {"slash", "quick"}
                  /\ ~is_user_on_cooldown(u))
                 => (bidder'[b].reply = "processing") = is_bid_processing(u)]_vars

\* C22 witness: while a bid of x is in flight (marker set), a second attempt
\* of x has been turned away as "in flight"; the marker of y is clear.
C22_SecondAttemptTurnedAway ==
    \E b1, b2 \in Bidders :
        /\ bidder[b1].user_id = "x" /\ bidder[b1].marked
        /\ bidder[b2].user_id = "x" /\ bidder[b2].reply = "processing"
        /\ is_bid_processing("x") /\ ~is_bid_processing("y")


\* Bid coroutine state me is past the guard: it has marked its user in
\* flight and not yet released the marker.
PastGuard(me) == me.marked

\* C23: of two bid requests by the same actor, whatever their entry points,
\* at most one is past the guard at any time.
C23_OneInFlightPerActor ==
    \A b1, b2 \in Bidders :
        (b1 # b2 /\ PastGuard(bidder[b1]) /\ PastGuard(bidder[b2]))
        => bidder[b1].user_id # bidder[b2].user_id


\* C24: a user marked in flight is eventually unmarked, whichever way the
\* attempts that marked them end (accepted, turned down by
\* place_bid_optimized or by a pre-check, store error, error after the bid).
C24_MarkerEventuallyCleared ==
    \A u \in Users : is_bid_processing(u) ~> ~is_bid_processing(u)

\* C24 witness: attempts that set the marker are over, one accepted and one
\* not, and nobody is marked in flight.
C24_AttemptsOverMarkerClear ==
    /\ \A b \in Bidders : bidder[b].pc = "done"
    /\ Len(committed.bids) = 1
    /\ bid_processing = {}


\* C25: a user's cooldown-until changes only in the step that follows
\* place_bid_optimized's success for a bid of that user, and becomes
\* now + the cooldown duration; an attempt that ends turned down or with an
\* error leaves every cooldown entry as it was.
C25_CooldownOnlyOnAccept ==
    [][/\ \A u \in Users :
             user_cooldowns'[u] # user_cooldowns[u]
             => /\ \E b \in Bidders :
                       /\ bidder[b].user_id = u /\ bidder[b].pc = "post"
                       /\ bidder'[b].pc # "post"
                /\ user_cooldowns'[u] = now + BidCooldown
       /\ \A b \in Bidders :
             (/\ bidder[b].pc # "reply" /\ bidder'[b].pc = "reply"
              /\ bidder'[b].reply \in {"cooldown", "processing", "invalid", "not_found",
                                       "inactive", "self_bid", "expired", "below_min",
                                       "internal"})
             => user_cooldowns' = user_cooldowns
       /\ \A b \in Bidders :
             (bidder[b].pc = "post" /\ bidder'[b].pc # "post")
             => user_cooldowns'[bidder[b].user_id] = now + BidCooldown]_vars

\* C25 witness: x's bid was accepted at a later clock value and x's
\* cooldown-until is set from it, while the owner, whose bid
\* place_bid_optimized has just turned down, has no cooldown.
C25_AcceptedCoolsRejectedNot ==
    \E b \in Bidders :
        /\ bidder[b].user_id = Owner /\ bidder[b].pc = "reply"
        /\ bidder[b].reply = "self_bid"
        /\ user_cooldowns[Owner] = 0
        /\ now > 0 /\ user_cooldowns["x"] = now + BidCooldown
        /\ \E i \in 1..Len(committed.bids) : committed.bids[i].user_id = "x"


\* C26: a request that arrives while its user is on cooldown or marked in
\* flight is answered at once and goes no further (no cache read, no store
\* read, no place_bid_optimized), whatever the entry point; when both hold
\* the answer is the cooldown one, the cooldown check coming first.
C26_GuardsBeforeStore ==
    [][\A b \in Bidders :
          LET u == bidder'[b].user_id IN
          (/\ bidder[b].pc = "idle" /\ bidder'[b].pc # "idle"
           /\ is_user_on_cooldown(u) \/ is_bid_processing(u))
          => /\ bidder'[b].pc = "reply"
             /\ bidder'[b].reply \in {"cooldown", "processing"}
                => bidder'[b].reply = IF is_user_on_cooldown(u) THEN "cooldown"
                                      ELSE "processing"]_vars


\* C27: when place_bid_optimized commits an accepted bid, the previous bidder
\* and previous amount it reports are those of the bid row that stands just
\* before its own row among the committed bids of the auction (the last row,
\* when its own row was dropped), and it reports no previous bidder exactly
\* when there is no such row.
C27_PreviousIsLatestBefore ==
    [][\A b \in Bidders :
          LET me == bidder[b]
              rows == BidsOf(committed', me.auction_id)
              own == {i \in 1..Len(rows) : /\ rows[i].user_id = me.user_id
                                            /\ rows[i].amount = me.amount}
              n == IF own = {} THEN Len(rows)
                   ELSE (CHOOSE i \in own : \A k \in own : k <= i) - 1 IN
          (me.pc = "commit" /\ bidder'[b].pc = "post")
          => IF n = 0 THEN me.previous_user_id = None
             ELSE /\ me.previous_user_id = rows[n].user_id
                  /\ me.previous_amount = rows[n].amount]_vars


\* C28: a bid turned down by a validation is turned down for the first check
\* that fails, in the order missing or not active, self-bid, expired, below
\* minimum, on a row read from the store: the row the transaction of
\* place_bid_optimized read, the row the entry point has just read from the
\* store, or, when the entry point read nothing, the row the store holds at
\* that instant (committed, or as the connection sees it).
C28_FirstFailingCheck ==
    [][\A b \in Bidders :
          LET me == bidder[b]
              r == bidder'[b].reply
              rows == IF me.pc \in {"validate", "lookup_fill"} THEN {me.row}
                      ELSE {connection.auctions[me.auction_id],
                            committed.auctions[me.auction_id]} IN
          (/\ me.pc \notin {"idle", "done"} /\ me.reply = "none"
           /\ r \in {"not_found", "inactive", "self_bid", "expired", "below_min"})
          => \E row \in rows :
                PlaceBidCheck(IF row.status = "active" THEN row ELSE NoAuction,
                              me.user_id, me.amount)
                   = IF r = "not_found" THEN "inactive" ELSE r]_vars


\* C29: the minimum shown by a below-minimum rejection that /pujar works out
\* from the cached snapshot (current_price + min_increment of the snapshot)
\* is the store's current_price + min_increment at that instant, as committed
\* or as the connection sees it.
C29_MinimumFromStore ==
    [][\A b \in Bidders :
          LET me == bidder[b]
              a == me.auction_id
              shown == auction_cache[a].row.current_price
                       + auction_cache[a].row.min_increment IN
          (/\ me.pc = "deferred" /\ me.entry = "slash" /\ AuctionHit(a)
           /\ bidder'[b].reply = "below_min")
          => shown \in {st.auctions[a].current_price + st.auctions[a].min_increment :
                           st \in {committed, connection}}]_vars


C31_StoreFailureIsInternal ==
    [][\A b \in Bidders :
          LET me == bidder[b] IN
          (/\ me.stmt = me.pc /\ me.attempt = max_retries - 1
           /\ bidder'[b].stmt = "none" /\ bidder'[b].pc # me.pc)
          => \/ bidder'[b].pc = "except"
             \/ bidder'[b].pc = "reply" /\ bidder'[b].reply = "internal"]_vars


\* C32: when the confirmation of an accepted bid cannot be sent, the store is
\* left as it is, committed rows included, and the bidder's in-flight marker
\* is released; spawning the auction-closed notification leaves the store as
\* the close committed it.
C32_PresenterFailureKeepsCommit ==
    [][/\ \A b \in Bidders :
             (/\ bidder[b].pc = "reply" /\ bidder[b].reply = "accepted"
              /\ bidder'[b].reply = "error")
             => /\ UNCHANGED <<committed, connection, in_transaction>>
                /\ bidder[b].user_id \notin bid_processing'
       /\ notified' # notified => UNCHANGED <<committed, connection, in_transaction>>]_vars

\* C32 (witness): a bid whose confirmation could not be sent is over, its
\* row is committed and nobody is marked in flight.
C32_UnconfirmedBidCommitted ==
    \E b \in Bidders :
        /\ bidder[b].pc = "done" /\ bidder[b].reply = "error"
        /\ \E i \in 1..Len(committed.bids) :
              /\ committed.bids[i].user_id = bidder[b].user_id
              /\ committed.bids[i].amount = bidder[b].amount
        /\ bid_processing = {}


\* C33: with the store at rest (no transaction open, no other bid, close or
\* embed refresh under way), a /pujar request that finds a snapshot in the
\* cache and that place_bid_optimized would accept on the committed row is
\* passed on to place_bid_optimized, as it is with an empty cache: the cached
\* snapshot never turns down a bid the store accepts.
C33_CacheNeverDecides ==
    [][\A b \in Bidders :
          LET me == bidder[b]
              a == me.auction_id IN
          (/\ me.pc = "deferred" /\ me.entry = "slash" /\ AuctionHit(a)
           /\ bidder'[b].pc # "deferred"
           /\ ~in_transaction /\ connection = committed
           /\ \A c \in Bidders \ {b} : bidder[c].pc \in {"idle", "done"}
           /\ \A c \in Closers : closer[c].pc \in {"idle", "done"}
           /\ reader.pc = "idle"
           /\ PlaceBidCheck(SelectActive(committed, a), me.user_id, me.amount) = "ok")
          => bidder'[b].pc = "begin"]_vars


\* C34: a timer whose delay exceeds one chunk checks the auction at each
\* chunk boundary.  When the check finds the auction not active (ended or
\* not found), the timer task ends without a close: the store and the
\* notifications are untouched and the table holds no handle for the
\* auction.  When the check finds it active, or the check itself failed,
\* the task goes on waiting.
C34_ChunkCheck ==
    [][/\ \A c \in Closers :
            LET me == closer[c] IN
            (me.pc = "chunk_fill" /\ closer'[c].pc # "chunk_fill" /\ ~Cancelled(me))
            => IF me.reply # "failed" /\ me.row.status # "active"
               THEN /\ me.task \notin {tm.task : tm \in active_timers'}
                    /\ \A tm \in active_timers' : tm.id = me.auction_id => ~tm.registered
                    /\ UNCHANGED <<committed, connection, notified>>
               ELSE me.task \in {tm.task : tm \in active_timers'}
       /\ \A tm \in active_timers :
            (/\ tm.delay > Chunk /\ ~tm.cancelled /\ ~Firing(tm.task)
             /\ closer' = closer
             /\ tm.task \notin {x.task : x \in active_timers'})
            => /\ AuctionHit(tm.id) /\ auction_cache[tm.id].row.status # "active"
               /\ \A x \in active_timers' : x.id = tm.id => ~x.registered
               /\ UNCHANGED <<committed, connection, notified>>]_vars


\* C35: once TimerManager.cleanup has completed, no timer task is live (so
\* the table is empty and no timer invokes a close) and the periodic sweep
\* runs no close.
C35_CleanupStopsTimers ==
    (\E c \in Closers : closer[c].origin = "cleanup" /\ closer[c].pc = "stopped")
    => /\ active_timers = {}
       /\ \A c \in Closers :
              closer[c].origin \in {"timer", "sweep"} => closer[c].pc \in {"idle", "done"}


\* C36: whenever the store is at rest (no transaction open, nothing
\* uncommitted, no bid, close, creation or embed refresh under way), an
\* unexpired cached snapshot has the current_price and status of the
\* committed row, and an unexpired cached bids list is the list the store
\* returns.
C36_CacheMatchesStore ==
    (/\ ~in_transaction /\ connection = committed
     /\ \A b \in Bidders : bidder[b].pc \in {"idle", "done"}
     /\ \A c \in Closers : closer[c].pc \in {"idle", "done"}
     /\ reader.pc = "idle" /\ creator.pc \in {"idle", "finished"})
    => \A a \in AuctionIds :
          /\ AuctionHit(a)
                => /\ auction_cache[a].row.current_price = committed.auctions[a].current_price
                   /\ auction_cache[a].row.status = committed.auctions[a].status
          /\ BidsHit(a) => bid_cache[a].bids = get_auction_bids(committed, a, BidsFetched)


\* C37: a request whose bid row place_bid_optimized has committed is never
\* answered with an error: the step that gives a request its error reply
\* is not one taken after place_bid_optimized returned success with the
\* request's row in the committed store.
C37_CommittedBidIsConfirmed ==
    [][\A b \in Bidders :
          LET me == bidder[b] IN
          (me.reply = "none" /\ bidder'[b].reply \in {"error", "internal"})
          => ~(/\ me.pc = "post"
               /\ \E i \in 1..Len(committed.bids) :
                      /\ committed.bids[i].auction_id = me.auction_id
                      /\ committed.bids[i].user_id = me.user_id
                      /\ committed.bids[i].amount = me.amount)]_vars


\* C38: once place_bid_optimized has returned a rejection or an internal
\* error for the only bid request made, the committed store holds no bid
\* row of that request and the auction's current_price, bid_count, status
\* and winner_id are those of the row as it was created.
C38_FailedBidLeavesStore ==
    \A b \in Bidders :
        LET me == bidder[b] IN
        (/\ me.pc \in {"reply", "done"}
         /\ me.reply \in {"inactive", "self_bid", "expired", "below_min", "internal"})
        => /\ \A i \in 1..Len(committed.bids) :
                 ~(committed.bids[i].user_id = me.user_id /\ committed.bids[i].amount = me.amount)
           /\ committed.auctions[me.auction_id].current_price = CreatedRow.current_price
           /\ committed.auctions[me.auction_id].bid_count = CreatedRow.bid_count
           /\ committed.auctions[me.auction_id].status = CreatedRow.status
           /\ committed.auctions[me.auction_id].winner_id = CreatedRow.winner_id


\* C39: every auction whose committed status has become 'ended' eventually
\* has its auction-closed notification emitted.
C39_EndedIsNotified ==
    \A a \in AuctionIds :
        (committed.auctions[a].status = "ended") ~> (notified[a] > 0)

=============================================================================
